---- MODULE Spec2Model ----
(***************************************************************************)
(* Model of the soly caching provider stack (src/src/rpc/blockhash.rs,     *)
(* src/src/rpc/lookup.rs, src/src/rpc/counter.rs, src/src/error.rs).       *)
(*                                                                         *)
(* The decorators sit on top of a CounterRpcProvider, which counts the     *)
(* calls that reach it, on top of a transport that answers from `lookups`  *)
(* (the tables the chain holds) and `chain_hash` (its latest blockhash),   *)
(* or fails with a transport error.  The caches are moka future caches:    *)
(* an entry inserted at time `at` with time-to-live `ttl` is expired as    *)
(* soon as at + ttl <= now; try_get_with coalesces concurrent misses on a  *)
(* key into one evaluation of the init future, whose error is handed to    *)
(* every coalesced caller behind one shared Arc.                           *)
(***************************************************************************)
EXTENDS Integers, Sequences, FiniteSets, TLC

(* ------------------------------ bounds -------------------------------- *)
MaxTime == 3
MaxCalls == 3
MaxHash == 2
BhTTL == 2
PosTTL == 2
NegTTL == 1
MaxIx == 7
MaxKeys == 2
MaxFees == 4

(* ------------------------------ universe ------------------------------ *)
Callers == {"c1", "c2", "c3"}
NoCaller == "none"
SeqCallers == {"c1"}

Keys == {"A", "B", "C"}
(* The versions of a table the chain may hold, 0 = no table; the keys whose  *)
(* table changes on chain.                                                 *)
Vers == {0, 1, 2}
ChainKeys == {"B"}

RpcMethod == {"Blockhash", "Lookup", "Simulate", "Send", "Fees"}

(* crate::Error, the kinds the cache decorators can produce, with Display  *)
(* as the #[error(...)] attributes give it.                                *)
SolanaRpcError(m) == [kind |-> "SolanaRpcError", msg |-> m]
LookupTableMiss == [kind |-> "LookupTableMiss", msg |-> <<>>]
MokaCacheError(m) == [kind |-> "MokaCacheError", msg |-> m]
NoErr == [kind |-> "none", msg |-> <<>>]

to_string(e) ==
    CASE e.kind = "SolanaRpcError" -> <<"Failed RPC call: ">> \o e.msg
      [] e.kind = "MokaCacheError" -> <<"Internal moka cache error ">> \o e.msg
      [] e.kind = "LookupTableMiss" -> <<"Lookup table miss">>
      [] OTHER -> <<>>

(* The transport error the underlying provider fails with.                 *)
TransportErr == SolanaRpcError(<<"io">>)

Ok(v) == [ok |-> TRUE, val |-> v, err |-> NoErr]
Err(e) == [ok |-> FALSE, val |-> 0, err |-> e]
NoRet == [ok |-> FALSE, val |-> 0, err |-> NoErr]

(* Option<T>                                                               *)
None == [some |-> FALSE]
Some(v) == [some |-> TRUE, val |-> v]
unwrap_or(o, d) == IF o.some THEN o.val ELSE d

VARIABLES
    now,            \* the clock the caches read
    chain_hash,     \* the blockhash the transport would return
    lookups,        \* key -> version of the table the transport holds, 0 = none
    counters,       \* CounterRpcProvider.counters
    blockhash,      \* BlockHashCacheProvider.blockhash, the capacity-one slot
    bh_waiter,      \* moka's waiter for key (): the caller evaluating the init future
    lookup_cache,   \* LookupTableCacheProvider.lookup_cache
    negative_cache, \* LookupTableCacheProvider.negative_cache
    lk_waiter,      \* moka's waiter map of lookup_cache: key -> caller evaluating init
    lookup_count,   \* lookup_cache.entry_count()
    negative_count, \* negative_cache.entry_count()
    pc,             \* where each caller is
    pubkeys,        \* the argument of a caller's get_lookup_table_accounts
    idx,            \* the position of the for loop over pubkeys
    resolved,       \* the caller's `resolved` vector
    ret,            \* what the decorator call returned to the caller
    arc_err,        \* the error behind the Arc a caller holds
    arc_holders,    \* the callers holding a clone of that Arc (its strong count)
    h_since,        \* history: underlying lookup calls per key since its last insert
    h_bh_since,     \* history: underlying blockhash calls since the last insert
    h_served,       \* history: blockhashes served from the slot since its last insert
    h_lk_served,    \* history: tables served from lookup_cache per key since insert
    h_missed,       \* history: <<key, time, position>> of this call's LookupTableMiss answers
    h_synced,       \* history: sync() ran after the last insert in either cache
    h_alone,        \* history: the init result a caller got was shared with no other
    h_failed,       \* history: this call met a transport error
    instructions,   \* TransactionBuilder.instructions
    lookup_tables_keys,     \* TransactionBuilder.lookup_tables_keys
    address_lookup_tables,  \* TransactionBuilder.address_lookup_tables
    rpc_log,        \* the provider calls the last builder operation made, in order
    tx_ret,         \* the last builder operation, its arguments and what it returned
    ctr_call,       \* caller -> the operation it has in flight below the counter
    reset_left,     \* the counters a running reset_counters has yet to zero
    h_direct,       \* history: calls per operation since its counter was last zero
    h_quiet,        \* history: no provider call since the last reset_counters began
    h_op,           \* history: the composite's operation each caller called last
    h_compiled      \* history: provider -> messages compiled with its blockhash

bh_vars == <<chain_hash, blockhash, bh_waiter, h_served, h_bh_since>>
lk_vars == <<lookups, lookup_cache, negative_cache, lk_waiter, lookup_count,
             negative_count, pubkeys, idx, resolved, h_since, h_lk_served, h_missed,
             h_synced>>
task_vars == <<pc, ret, arc_err, arc_holders, h_alone, h_failed>>
builder_vars == <<instructions, lookup_tables_keys, address_lookup_tables>>
tx_vars == <<builder_vars, rpc_log, tx_ret>>
cache_vars == <<now, counters, bh_vars, lk_vars, task_vars>>
ctr_vars == <<ctr_call, reset_left, h_direct, h_quiet, h_op, h_compiled>>
vars == <<cache_vars, tx_vars, ctr_vars>>

(* ------------------------------ moka ---------------------------------- *)
(* An entry written at `at` is expired once at + ttl <= now.               *)
MutNeverExpires(at, ttl) == FALSE
is_expired(at, ttl) == at + ttl <= now

Live(e, ttl) == e.present /\ ~is_expired(e.at, ttl)

EmptySlot == [present |-> FALSE, value |-> 0, at |-> 0, prev |-> -1]
EmptyEntry == [present |-> FALSE, value |-> <<>>, at |-> 0]
EmptyMark == [present |-> FALSE, at |-> 0]

(* Arc::try_unwrap(arc) succeeds iff the caller holds the only clone.      *)
try_unwrap_ok(c) == arc_holders[c] = {c}

(* Dropping caller c's clone of the Arc it holds.                          *)
DropArc(c) ==
    /\ arc_holders' = [d \in Callers |->
                          IF d = c THEN {}
                          ELSE IF d \in arc_holders[c] THEN arc_holders[d] \ {c}
                          ELSE arc_holders[d]]
    /\ arc_err' = [arc_err EXCEPT ![c] = NoErr]

(* A run makes at most MaxCalls underlying blockhash and lookup calls.     *)
CallsLeft == counters["Blockhash"] + counters["Lookup"] < MaxCalls

(* ------------------------------ Init ---------------------------------- *)
Init ==
    /\ now = 0
    /\ chain_hash = 1
    /\ lookups = [k \in Keys |-> IF k = "B" THEN 0 ELSE 1]
    /\ counters = [m \in RpcMethod |-> 0]
    /\ blockhash = EmptySlot
    /\ bh_waiter = NoCaller
    /\ lookup_cache = [k \in Keys |-> EmptyEntry]
    /\ negative_cache = [k \in Keys |-> EmptyMark]
    /\ lk_waiter = [k \in Keys |-> NoCaller]
    /\ lookup_count = 0
    /\ negative_count = 0
    /\ pc = [c \in Callers |-> "idle"]
    /\ pubkeys = [c \in Callers |-> <<>>]
    /\ idx = [c \in Callers |-> 0]
    /\ resolved = [c \in Callers |-> <<>>]
    /\ ret = [c \in Callers |-> NoRet]
    /\ arc_err = [c \in Callers |-> NoErr]
    /\ arc_holders = [c \in Callers |-> {}]
    /\ h_since = [k \in Keys |-> 0]
    /\ h_served = {}
    /\ h_bh_since = 0
    /\ h_lk_served = [k \in Keys |-> {}]
    /\ h_missed = [c \in Callers |-> <<>>]
    /\ h_synced = TRUE
    /\ h_alone = [c \in Callers |-> FALSE]
    /\ h_failed = [c \in Callers |-> FALSE]
    /\ instructions = <<>>
    /\ lookup_tables_keys = None
    /\ address_lookup_tables = None
    /\ rpc_log = <<>>
    /\ tx_ret = [op |-> "default", self |-> <<>>, args |-> <<>>, res |-> Ok(<<>>)]
    /\ ctr_call = [c \in Callers |-> "none"]
    /\ reset_left = {}
    /\ h_direct = [m \in RpcMethod |-> 0]
    /\ h_quiet = TRUE
    /\ h_op = [c \in Callers |-> "none"]
    /\ h_compiled = [p \in {"cached", "uncached"} |-> 0]

(* ------------------------------ environment --------------------------- *)
Tick ==
    /\ now < MaxTime
    /\ now' = now + 1
    /\ UNCHANGED <<counters, bh_vars, lk_vars, task_vars>>

(* The chain produces a new blockhash.                                     *)
ChainAdvance ==
    /\ chain_hash < MaxHash
    /\ chain_hash' = chain_hash + 1
    /\ UNCHANGED <<now, counters, blockhash, bh_waiter, h_served, h_bh_since, lk_vars,
                   task_vars>>

(* The caller takes the returned value and is free to call again.          *)
Return(c) ==
    /\ pc[c] = "done"
    /\ pc' = [pc EXCEPT ![c] = "idle"]
    /\ ret' = [ret EXCEPT ![c] = NoRet]
    /\ pubkeys' = [pubkeys EXCEPT ![c] = <<>>]
    /\ idx' = [idx EXCEPT ![c] = 0]
    /\ resolved' = [resolved EXCEPT ![c] = <<>>]
    /\ h_missed' = [h_missed EXCEPT ![c] = <<>>]
    /\ h_alone' = [h_alone EXCEPT ![c] = FALSE]
    /\ h_failed' = [h_failed EXCEPT ![c] = FALSE]
    /\ UNCHANGED <<now, counters, bh_vars, lookups, lookup_cache, negative_cache,
                   lk_waiter, lookup_count, negative_count, h_synced, h_since, h_lk_served,
                   arc_err, arc_holders>>

(* ------------------- BlockHashCacheProvider --------------------------- *)
BhLive == Live(blockhash, BhTTL)
BhWaiters == {w \in Callers : pc[w] = "bh_wait"}

(* CounterRpcProvider::get_latest_blockhash: count, then forward.          *)
counter_get_latest_blockhash ==
    /\ counters' = [counters EXCEPT !["Blockhash"] = @ + 1]
    /\ h_bh_since' = h_bh_since + 1

(* try_get_with((), init): the slot holds an unexpired value.              *)
MutBhHitStale(c) ==
    /\ blockhash.present
    /\ pc' = [pc EXCEPT ![c] = "done"]
    /\ ret' = [ret EXCEPT ![c] = Ok(blockhash.value)]
    /\ h_served' = h_served \cup {blockhash.value}
    /\ UNCHANGED <<counters, chain_hash, blockhash, bh_waiter, h_bh_since, arc_err,
                   arc_holders, h_alone, h_failed>>
bh_hit(c) ==
    /\ BhLive
    /\ pc' = [pc EXCEPT ![c] = "done"]
    /\ ret' = [ret EXCEPT ![c] = Ok(blockhash.value)]
    /\ h_served' = h_served \cup {blockhash.value}
    /\ UNCHANGED <<counters, chain_hash, blockhash, bh_waiter, h_bh_since, arc_err,
                   arc_holders, h_alone, h_failed>>

(* try_get_with((), init): another caller is evaluating its init future.   *)
bh_join(c) ==
    /\ ~BhLive
    /\ bh_waiter # NoCaller
    /\ pc' = [pc EXCEPT ![c] = "bh_wait"]
    /\ UNCHANGED <<counters, bh_vars, ret, arc_err, arc_holders, h_alone, h_failed>>

(* try_get_with((), init): this caller evaluates init, which calls inner.  *)
MutBhNoSingleFlight(c) ==
    /\ ~BhLive
    /\ CallsLeft
    /\ bh_waiter' = c
    /\ counter_get_latest_blockhash
    /\ pc' = [pc EXCEPT ![c] = "bh_fetch"]
    /\ UNCHANGED <<chain_hash, blockhash, h_served, ret, arc_err, arc_holders,
                   h_alone, h_failed>>
bh_miss(c) ==
    /\ ~BhLive
    /\ bh_waiter = NoCaller
    /\ CallsLeft
    /\ bh_waiter' = c
    /\ counter_get_latest_blockhash
    /\ pc' = [pc EXCEPT ![c] = "bh_fetch"]
    /\ UNCHANGED <<chain_hash, blockhash, h_served, ret, arc_err, arc_holders,
                   h_alone, h_failed>>

get_latest_blockhash(c) ==
    /\ pc[c] = "idle"
    /\ \/ bh_hit(c)
       \/ bh_join(c)
       \/ bh_miss(c)
    /\ UNCHANGED <<now, lk_vars>>

(* The init future resolved Ok: the value is stored and handed to the      *)
(* initiator and to every coalesced caller.                                *)
bh_init_ok(c) ==
    /\ pc[c] = "bh_fetch"
    /\ blockhash' = [present |-> TRUE, value |-> chain_hash, at |-> now,
                     prev |-> IF blockhash.present THEN blockhash.at ELSE -1]
    /\ h_served' = {}
    /\ h_bh_since' = 0
    /\ bh_waiter' = NoCaller
    /\ pc' = [d \in Callers |-> IF d = c \/ d \in BhWaiters THEN "done" ELSE pc[d]]
    /\ ret' = [d \in Callers |->
                  IF d = c \/ d \in BhWaiters THEN Ok(chain_hash) ELSE ret[d]]
    /\ h_alone' = [d \in Callers |->
                  IF d = c \/ d \in BhWaiters THEN BhWaiters = {} ELSE h_alone[d]]
    /\ UNCHANGED <<now, counters, chain_hash, lk_vars, arc_err, arc_holders, h_failed>>

(* The init future resolved Err: the slot is left alone, and the initiator *)
(* and every coalesced caller get a clone of one Arc<Error>.               *)
MutBhStoreDefault(c) ==
    /\ pc[c] = "bh_fetch"
    /\ bh_waiter' = NoCaller
    /\ blockhash' = [present |-> TRUE, value |-> 0, at |-> now,
                     prev |-> IF blockhash.present THEN blockhash.at ELSE -1]
    /\ pc' = [d \in Callers |-> IF d = c \/ d \in BhWaiters THEN "bh_maperr" ELSE pc[d]]
    /\ arc_err' = [d \in Callers |->
                  IF d = c \/ d \in BhWaiters THEN TransportErr ELSE arc_err[d]]
    /\ arc_holders' = [d \in Callers |->
                  IF d = c \/ d \in BhWaiters THEN {c} \cup BhWaiters ELSE arc_holders[d]]
    /\ h_alone' = [d \in Callers |->
                  IF d = c \/ d \in BhWaiters THEN BhWaiters = {} ELSE h_alone[d]]
    /\ h_failed' = [d \in Callers |->
                  IF d = c \/ d \in BhWaiters THEN TRUE ELSE h_failed[d]]
    /\ UNCHANGED <<now, counters, chain_hash, h_served, h_bh_since, lk_vars, ret>>
bh_init_err(c) ==
    /\ pc[c] = "bh_fetch"
    /\ bh_waiter' = NoCaller
    /\ pc' = [d \in Callers |-> IF d = c \/ d \in BhWaiters THEN "bh_maperr" ELSE pc[d]]
    /\ arc_err' = [d \in Callers |->
                  IF d = c \/ d \in BhWaiters THEN TransportErr ELSE arc_err[d]]
    /\ arc_holders' = [d \in Callers |->
                  IF d = c \/ d \in BhWaiters THEN {c} \cup BhWaiters ELSE arc_holders[d]]
    /\ h_alone' = [d \in Callers |->
                  IF d = c \/ d \in BhWaiters THEN BhWaiters = {} ELSE h_alone[d]]
    /\ h_failed' = [d \in Callers |->
                  IF d = c \/ d \in BhWaiters THEN TRUE ELSE h_failed[d]]
    /\ UNCHANGED <<now, counters, chain_hash, blockhash, h_served, h_bh_since, lk_vars,
                   ret>>

(* .map_err(|arc_err| match Arc::try_unwrap(arc_err) { Ok(e) => e,         *)
(*           Err(arc) => MokaCacheError(arc.to_string()) })                *)
bh_unwrap_error(c, e) ==
    IF try_unwrap_ok(c) THEN e ELSE MokaCacheError(to_string(e))

bh_map_err(c) ==
    /\ pc[c] = "bh_maperr"
    /\ ret' = [ret EXCEPT ![c] = Err(bh_unwrap_error(c, arc_err[c]))]
    /\ pc' = [pc EXCEPT ![c] = "done"]
    /\ DropArc(c)
    /\ UNCHANGED <<now, counters, bh_vars, lk_vars, h_alone, h_failed>>

NextBh ==
    \/ Tick /\ UNCHANGED <<tx_vars, ctr_vars>>
    \/ ChainAdvance /\ UNCHANGED <<tx_vars, ctr_vars>>
    \/ \E c \in Callers : get_latest_blockhash(c) /\ UNCHANGED <<tx_vars, ctr_vars>>
    \/ \E c \in Callers : bh_init_ok(c) /\ UNCHANGED <<tx_vars, ctr_vars>>
    \/ \E c \in Callers : bh_init_err(c) /\ UNCHANGED <<tx_vars, ctr_vars>>
    \/ \E c \in Callers : bh_map_err(c) /\ UNCHANGED <<tx_vars, ctr_vars>>
    \/ \E c \in Callers : Return(c) /\ UNCHANGED <<tx_vars, ctr_vars>>

SpecBh == Init /\ [][NextBh]_vars

(* ------------------- LookupTableCacheProvider ------------------------- *)
(* AddressLookupTableAccount { key, addresses }: the table of key k in     *)
(* version v.                                                              *)
Table(k, v) == <<k, v>>

CurKey(c) == pubkeys[c][idx[c]]
LkLive(k) == Live(lookup_cache[k], PosTTL)
NegLive(k) == Live(negative_cache[k], NegTTL)
LkWaiters(k) == {w \in Callers : pc[w] = "lk_wait" /\ CurKey(w) = k}

(* The underlying provider changes what it holds for key k.                *)
ChainSet(k, v) ==
    /\ lookups[k] # v
    /\ lookups' = [lookups EXCEPT ![k] = v]
    /\ UNCHANGED <<now, counters, bh_vars, lookup_cache, negative_cache, lk_waiter,
                   lookup_count, negative_count, h_synced, pubkeys, idx, resolved, h_since,
                   h_lk_served, h_missed, task_vars>>

(* CounterRpcProvider::get_lookup_table_accounts: count, then forward.     *)
counter_get_lookup_table_accounts(k) ==
    /\ counters' = [counters EXCEPT !["Lookup"] = @ + 1]
    /\ h_since' = [h_since EXCEPT ![k] = @ + 1]

(* try_get_with(pubkey, init) for key ks[i] of caller c, whose `resolved`  *)
(* is res: the positive cache holds an unexpired table, which is pushed;   *)
(* after the last key the call returns Ok(resolved).                       *)
MutCachedFirst(c, ks, i, res) ==
    /\ LkLive(ks[i])
    /\ resolved' = [resolved EXCEPT ![c] = <<lookup_cache[ks[i]].value>> \o res]
    /\ idx' = [idx EXCEPT ![c] = i + 1]
    /\ pc' = [pc EXCEPT ![c] = IF i = Len(ks) THEN "done" ELSE "lk_loop"]
    /\ ret' = [ret EXCEPT ![c] =
                  IF i = Len(ks) THEN Ok(<<lookup_cache[ks[i]].value>> \o res) ELSE NoRet]
    /\ h_lk_served' = [h_lk_served EXCEPT ![ks[i]] = @ \cup {lookup_cache[ks[i]].value}]
    /\ UNCHANGED <<counters, lk_waiter, h_since>>
MutLkHitRefetch(c, ks, i, res) ==
    /\ LkLive(ks[i])
    /\ lk_waiter[ks[i]] = NoCaller
    /\ CallsLeft
    /\ lk_waiter' = [lk_waiter EXCEPT ![ks[i]] = c]
    /\ counter_get_lookup_table_accounts(ks[i])
    /\ pc' = [pc EXCEPT ![c] = "lk_fetch"]
    /\ idx' = [idx EXCEPT ![c] = i]
    /\ resolved' = [resolved EXCEPT ![c] = res]
    /\ UNCHANGED <<ret, h_lk_served>>
lk_hit(c, ks, i, res) ==
    /\ LkLive(ks[i])
    /\ resolved' = [resolved EXCEPT ![c] = Append(res, lookup_cache[ks[i]].value)]
    /\ idx' = [idx EXCEPT ![c] = i + 1]
    /\ pc' = [pc EXCEPT ![c] = IF i = Len(ks) THEN "done" ELSE "lk_loop"]
    /\ ret' = [ret EXCEPT ![c] =
                  IF i = Len(ks) THEN Ok(Append(res, lookup_cache[ks[i]].value)) ELSE NoRet]
    /\ h_lk_served' = [h_lk_served EXCEPT ![ks[i]] = @ \cup {lookup_cache[ks[i]].value}]
    /\ UNCHANGED <<counters, lk_waiter, h_since>>

(* try_get_with(pubkey, init): another caller evaluates init for this key. *)
lk_join(c, ks, i, res) ==
    /\ ~LkLive(ks[i])
    /\ lk_waiter[ks[i]] # NoCaller
    /\ pc' = [pc EXCEPT ![c] = "lk_wait"]
    /\ idx' = [idx EXCEPT ![c] = i]
    /\ resolved' = [resolved EXCEPT ![c] = res]
    /\ UNCHANGED <<counters, lk_waiter, ret, h_since, h_lk_served>>

(* try_get_with(pubkey, init): this caller evaluates init, which calls     *)
(* self.inner.get_lookup_table_accounts(&[pubkey]).                        *)
MutLkNoSingleFlight(c, ks, i, res) ==
    /\ ~LkLive(ks[i])
    /\ CallsLeft
    /\ lk_waiter' = [lk_waiter EXCEPT ![ks[i]] = c]
    /\ counter_get_lookup_table_accounts(ks[i])
    /\ pc' = [pc EXCEPT ![c] = "lk_fetch"]
    /\ idx' = [idx EXCEPT ![c] = i]
    /\ resolved' = [resolved EXCEPT ![c] = res]
    /\ UNCHANGED <<ret, h_lk_served>>
lk_miss(c, ks, i, res) ==
    /\ ~LkLive(ks[i])
    /\ lk_waiter[ks[i]] = NoCaller
    /\ CallsLeft
    /\ lk_waiter' = [lk_waiter EXCEPT ![ks[i]] = c]
    /\ counter_get_lookup_table_accounts(ks[i])
    /\ pc' = [pc EXCEPT ![c] = "lk_fetch"]
    /\ idx' = [idx EXCEPT ![c] = i]
    /\ resolved' = [resolved EXCEPT ![c] = res]
    /\ UNCHANGED <<ret, h_lk_served>>

(* try_get_lookup_account(pubkey) up to its first suspension.              *)
try_get_lookup_account(c, ks, i, res) ==
    /\ pubkeys' = [pubkeys EXCEPT ![c] = ks]
    /\ \/ lk_hit(c, ks, i, res)
       \/ lk_join(c, ks, i, res)
       \/ lk_miss(c, ks, i, res)
    /\ UNCHANGED <<now, bh_vars, lookups, lookup_cache, negative_cache, lookup_count,
                   negative_count, h_synced, h_missed, arc_err, arc_holders, h_alone, h_failed>>

(* get_lookup_table_accounts(pubkeys): let mut resolved = Vec::new(), and  *)
(* the for loop resolves the first key.                                    *)
get_lookup_table_accounts(c, ks) ==
    /\ pc[c] = "idle"
    /\ try_get_lookup_account(c, ks, 1, <<>>)

(* The for loop goes on to the next key.                                   *)
lk_next_key(c) ==
    /\ pc[c] = "lk_loop"
    /\ try_get_lookup_account(c, pubkeys[c], idx[c], resolved[c])

(* The callers in G finish the key they are at, with table t pushed on     *)
(* `resolved` when push holds; after the last key the call returns         *)
(* Ok(resolved).                                                           *)
LastKey(d) == idx[d] = Len(pubkeys[d])
Pushed(d, G, push, t) == IF d \in G /\ push THEN Append(resolved[d], t) ELSE resolved[d]
FinishKey(G, push, t) ==
    /\ resolved' = [d \in Callers |-> Pushed(d, G, push, t)]
    /\ idx' = [d \in Callers |-> IF d \in G THEN idx[d] + 1 ELSE idx[d]]
    /\ pc' = [d \in Callers |->
                 IF d \in G THEN (IF LastKey(d) THEN "done" ELSE "lk_loop") ELSE pc[d]]
    /\ ret' = [d \in Callers |->
                 IF d \in G /\ LastKey(d) THEN Ok(Pushed(d, G, push, t)) ELSE ret[d]]

(* init: results non-empty => Ok(results[0]); moka stores the table and    *)
(* hands it to the initiator and to every coalesced caller.                *)
lk_init_ok(c) ==
    /\ pc[c] = "lk_fetch"
    /\ lookups[CurKey(c)] # 0
    /\ LET k == CurKey(c)
           t == Table(k, lookups[k])
           G == {c} \cup LkWaiters(k)
       IN /\ lookup_cache' = [lookup_cache EXCEPT ![k] =
                 [present |-> TRUE, value |-> t, at |-> now]]
          /\ h_lk_served' = [h_lk_served EXCEPT ![k] = {}]
          /\ h_since' = [h_since EXCEPT ![k] = 0]
          /\ lk_waiter' = [lk_waiter EXCEPT ![k] = NoCaller]
          /\ FinishKey(G, TRUE, t)
          /\ h_alone' = [d \in Callers |-> IF d \in G THEN G = {c} ELSE h_alone[d]]
    /\ h_synced' = FALSE
    /\ UNCHANGED <<now, counters, bh_vars, lookups, negative_cache, lookup_count,
                   negative_count, pubkeys, h_missed, arc_err, arc_holders, h_failed>>

MutErrLeavesWaiters(c, e) ==
    /\ pc[c] = "lk_fetch"
    /\ lk_waiter' = [lk_waiter EXCEPT ![CurKey(c)] = NoCaller]
    /\ pc' = [pc EXCEPT ![c] = "lk_maperr"]
    /\ arc_err' = [arc_err EXCEPT ![c] = e]
    /\ arc_holders' = [arc_holders EXCEPT ![c] = {c}]
    /\ h_alone' = [h_alone EXCEPT ![c] = TRUE]
    /\ h_failed' = [h_failed EXCEPT ![c] = e.kind # "LookupTableMiss"]
    /\ UNCHANGED <<now, counters, bh_vars, lookups, lookup_cache, negative_cache,
                   lookup_count, negative_count, h_synced, pubkeys, idx, resolved, ret, h_since,
                   h_lk_served, h_missed>>
(* init resolved Err(e): nothing is stored, and the initiator and every    *)
(* coalesced caller get a clone of one Arc<Error>.                         *)
LkInitFails(c, e) ==
    /\ pc[c] = "lk_fetch"
    /\ LET k == CurKey(c)
           G == {c} \cup LkWaiters(k)
       IN /\ lk_waiter' = [lk_waiter EXCEPT ![k] = NoCaller]
          /\ pc' = [d \in Callers |-> IF d \in G THEN "lk_maperr" ELSE pc[d]]
          /\ arc_err' = [d \in Callers |-> IF d \in G THEN e ELSE arc_err[d]]
          /\ arc_holders' = [d \in Callers |-> IF d \in G THEN G ELSE arc_holders[d]]
          /\ h_alone' = [d \in Callers |-> IF d \in G THEN G = {c} ELSE h_alone[d]]
          /\ h_failed' = [d \in Callers |->
                IF d \in G /\ e.kind # "LookupTableMiss" THEN TRUE ELSE h_failed[d]]
    /\ UNCHANGED <<now, counters, bh_vars, lookups, lookup_cache, negative_cache,
                   lookup_count, negative_count, h_synced, pubkeys, idx, resolved, ret, h_since,
                   h_lk_served, h_missed>>

(* init: results.is_empty() => Err(Error::LookupTableMiss).                *)
lk_init_empty(c) ==
    /\ pc[c] = "lk_fetch"
    /\ lookups[CurKey(c)] = 0
    /\ LkInitFails(c, LookupTableMiss)

(* init: self.inner.get_lookup_table_accounts(..).await? fails.            *)
lk_init_err(c) ==
    /\ pc[c] = "lk_fetch"
    /\ LkInitFails(c, TransportErr)

(* handle_cache_error: Arc::try_unwrap gives the error itself; a shared    *)
(* Arc keeps LookupTableMiss and turns any other error into MokaCacheError.*)
MutHandleAllMiss(c, e) == IF try_unwrap_ok(c) THEN e ELSE LookupTableMiss
handle_cache_error(c, e) ==
    IF try_unwrap_ok(c) THEN e
    ELSE IF e.kind = "LookupTableMiss" THEN LookupTableMiss
    ELSE MokaCacheError(to_string(e))

(* The match of get_lookup_table_accounts on Err: LookupTableMiss inserts  *)
(* the key in negative_cache and goes on, any other error is returned.     *)
MutSkipsFailedKey(c) ==
    /\ pc[c] = "lk_maperr"
    /\ LET e == handle_cache_error(c, arc_err[c])
           k == CurKey(c)
       IN /\ FinishKey({c}, FALSE, <<>>)
          /\ IF e.kind = "LookupTableMiss"
             THEN /\ negative_cache' = [negative_cache EXCEPT ![k] =
                                           [present |-> TRUE, at |-> now]]
                  /\ h_missed' = [h_missed EXCEPT ![c] = Append(@, <<k, now, idx[c]>>)]
                  /\ h_synced' = FALSE
             ELSE UNCHANGED <<negative_cache, h_missed, h_synced>>
    /\ DropArc(c)
    /\ UNCHANGED <<now, counters, bh_vars, lookups, lookup_cache, lk_waiter,
                   lookup_count, negative_count, pubkeys, h_since, h_lk_served,
                   h_alone, h_failed>>
MutLkMapErrPropagate(c) ==
    /\ pc[c] = "lk_maperr"
    /\ ret' = [ret EXCEPT ![c] = Err(handle_cache_error(c, arc_err[c]))]
    /\ pc' = [pc EXCEPT ![c] = "done"]
    /\ DropArc(c)
    /\ UNCHANGED <<now, counters, bh_vars, lk_vars, h_alone, h_failed>>
lk_map_err(c) ==
    /\ pc[c] = "lk_maperr"
    /\ LET e == handle_cache_error(c, arc_err[c])
           k == CurKey(c)
       IN IF e.kind = "LookupTableMiss"
          THEN /\ negative_cache' = [negative_cache EXCEPT ![k] =
                                        [present |-> TRUE, at |-> now]]
               /\ FinishKey({c}, FALSE, <<>>)
               /\ h_missed' = [h_missed EXCEPT ![c] = Append(@, <<k, now, idx[c]>>)]
               /\ h_synced' = FALSE
          ELSE /\ ret' = [ret EXCEPT ![c] = Err(e)]
               /\ pc' = [pc EXCEPT ![c] = "done"]
               /\ UNCHANGED <<negative_cache, idx, resolved, h_missed, h_synced>>
    /\ DropArc(c)
    /\ UNCHANGED <<now, counters, bh_vars, lookups, lookup_cache, lk_waiter,
                   lookup_count, negative_count, pubkeys, h_since, h_lk_served,
                   h_alone, h_failed>>

(* sync(): run_pending_tasks on both caches evicts the expired entries and *)
(* brings entry_count up to date.                                          *)
Evict(cache, ttl, empty) == [k \in Keys |-> IF Live(cache[k], ttl) THEN cache[k] ELSE empty]
MutCountsStale(cache, ttl) == Cardinality({k \in Keys : cache[k].present})
LiveCount(cache, ttl) == Cardinality({k \in Keys : Live(cache[k], ttl)})
sync ==
    /\ lookup_cache' = Evict(lookup_cache, PosTTL, EmptyEntry)
    /\ negative_cache' = Evict(negative_cache, NegTTL, EmptyMark)
    /\ lookup_count' = LiveCount(lookup_cache, PosTTL)
    /\ negative_count' = LiveCount(negative_cache, NegTTL)
    /\ h_synced' = TRUE
    /\ UNCHANGED <<now, counters, bh_vars, lookups, lk_waiter, pubkeys, idx, resolved,
                   h_since, h_lk_served, h_missed, task_vars>>

len == lookup_count
len_negative == negative_count
total == len + len_negative

(* The key lists the sequential caller asks for, and those of the          *)
(* concurrent callers.                                                     *)
KeyLists == {<<"B">>, <<"A", "B", "C">>}
ConcKeyLists == {<<"B">>}

NextLk ==
    \/ Tick /\ UNCHANGED <<tx_vars, ctr_vars>>
    \/ \E k \in ChainKeys, v \in Vers : ChainSet(k, v) /\ UNCHANGED <<tx_vars, ctr_vars>>
    \/ sync /\ UNCHANGED <<tx_vars, ctr_vars>>
    \/ \E c \in SeqCallers, ks \in KeyLists : get_lookup_table_accounts(c, ks) /\ UNCHANGED <<tx_vars, ctr_vars>>
    \/ \E c \in SeqCallers : lk_next_key(c) /\ UNCHANGED <<tx_vars, ctr_vars>>
    \/ \E c \in SeqCallers : lk_init_ok(c) /\ UNCHANGED <<tx_vars, ctr_vars>>
    \/ \E c \in SeqCallers : lk_init_empty(c) /\ UNCHANGED <<tx_vars, ctr_vars>>
    \/ \E c \in SeqCallers : lk_init_err(c) /\ UNCHANGED <<tx_vars, ctr_vars>>
    \/ \E c \in SeqCallers : lk_map_err(c) /\ UNCHANGED <<tx_vars, ctr_vars>>
    \/ \E c \in SeqCallers : Return(c) /\ UNCHANGED <<tx_vars, ctr_vars>>

SpecLk == Init /\ [][NextLk]_vars

NextLkConc ==
    \/ Tick /\ UNCHANGED <<tx_vars, ctr_vars>>
    \/ \E k \in ChainKeys, v \in {0, 1} : ChainSet(k, v) /\ UNCHANGED <<tx_vars, ctr_vars>>
    \/ \E c \in Callers, ks \in ConcKeyLists : get_lookup_table_accounts(c, ks) /\ UNCHANGED <<tx_vars, ctr_vars>>
    \/ \E c \in Callers : lk_init_ok(c) /\ UNCHANGED <<tx_vars, ctr_vars>>
    \/ \E c \in Callers : lk_init_empty(c) /\ UNCHANGED <<tx_vars, ctr_vars>>
    \/ \E c \in Callers : lk_init_err(c) /\ UNCHANGED <<tx_vars, ctr_vars>>
    \/ \E c \in Callers : lk_map_err(c) /\ UNCHANGED <<tx_vars, ctr_vars>>
    \/ \E c \in Callers : Return(c) /\ UNCHANGED <<tx_vars, ctr_vars>>

SpecLkConc == Init /\ [][NextLkConc]_vars

(* Both decorators under two callers, for the error paths.                 *)
ErrCallers == {"c1", "c2"}
ErrKeyLists == {<<"A", "B">>}

NextErr ==
    \/ Tick /\ UNCHANGED <<tx_vars, ctr_vars>>
    \/ \E c \in ErrCallers : get_latest_blockhash(c) /\ UNCHANGED <<tx_vars, ctr_vars>>
    \/ \E c \in ErrCallers : bh_init_ok(c) /\ UNCHANGED <<tx_vars, ctr_vars>>
    \/ \E c \in ErrCallers : bh_init_err(c) /\ UNCHANGED <<tx_vars, ctr_vars>>
    \/ \E c \in ErrCallers : bh_map_err(c) /\ UNCHANGED <<tx_vars, ctr_vars>>
    \/ \E c \in ErrCallers, ks \in ErrKeyLists : get_lookup_table_accounts(c, ks) /\ UNCHANGED <<tx_vars, ctr_vars>>
    \/ \E c \in ErrCallers : lk_next_key(c) /\ UNCHANGED <<tx_vars, ctr_vars>>
    \/ \E c \in ErrCallers : lk_init_ok(c) /\ UNCHANGED <<tx_vars, ctr_vars>>
    \/ \E c \in ErrCallers : lk_init_empty(c) /\ UNCHANGED <<tx_vars, ctr_vars>>
    \/ \E c \in ErrCallers : lk_init_err(c) /\ UNCHANGED <<tx_vars, ctr_vars>>
    \/ \E c \in ErrCallers : lk_map_err(c) /\ UNCHANGED <<tx_vars, ctr_vars>>
    \/ \E c \in ErrCallers : Return(c) /\ UNCHANGED <<tx_vars, ctr_vars>>

SpecErr == Init /\ [][NextErr]_vars

(* ====================== TransactionBuilder ============================ *)
(* src/src/transaction.rs and src/src/fee.rs.  The builder is driven by    *)
(* one caller against a provider whose answers are the `env` argument of   *)
(* each operation; rpc_log holds the provider calls the operation made.    *)

(* ------------------------------ numbers ------------------------------- *)
(* A u64 (and a u32, a u64 below 2^32) is written in three base-10^9       *)
(* limbs, most significant first: U(h, m, l) = h*10^18 + m*10^9 + l.       *)
Base == 1000000000
U(h, m, l) == <<h, m, l>>
Zero == U(0, 0, 0)
U32_MAX == U(0, 4, 294967295)
U64_MAX == U(18, 446744073, 709551615)

Lt(a, b) ==
    \/ a[1] < b[1]
    \/ a[1] = b[1] /\ a[2] < b[2]
    \/ a[1] = b[1] /\ a[2] = b[2] /\ a[3] < b[3]
Le(a, b) == a = b \/ Lt(a, b)
min(a, b) == IF Le(a, b) THEN a ELSE b

(* a + b of two numbers whose sum is below 10^27.                          *)
Add(a, b) ==
    LET l == a[3] + b[3]
        m == a[2] + b[2] + (l \div Base)
    IN  U(a[1] + b[1] + (m \div Base), m % Base, l % Base)

(* floor(a / 10)                                                           *)
Div10(a) ==
    U(a[1] \div 10,
      (a[1] % 10) * (Base \div 10) + (a[2] \div 10),
      (a[2] % 10) * (Base \div 10) + (a[3] \div 10))

(* a - b for a >= b                                                        *)
Sub(a, b) ==
    LET bl == IF a[3] < b[3] THEN 1 ELSE 0
        l == a[3] + bl * Base - b[3]
        bm == IF a[2] < b[2] + bl THEN 1 ELSE 0
        m == a[2] + bm * Base - b[2] - bl
    IN  U(a[1] - b[1] - bm, m, l)

MutWrappingAdd(a, b) ==
    IF Lt(U32_MAX, Add(a, b)) THEN Sub(Add(a, b), Add(U32_MAX, U(0, 0, 1)))
    ELSE Add(a, b)

(* u32::saturating_add                                                     *)
saturating_add(a, b) == IF Lt(U32_MAX, Add(a, b)) THEN U32_MAX ELSE Add(a, b)

(* usize::saturating_sub                                                   *)
saturating_sub(a, b) == IF a < b THEN 0 ELSE a - b

(* u8::min                                                                 *)
min_u8(a, b) == IF a <= b THEN a ELSE b

(* ------------------------------ fee.rs -------------------------------- *)
SOLANA_MAX_COMPUTE_UNITS == U(0, 0, 1400000)
MAX_ACCEPTABLE_PRIORITY_FEE_MICROLAMPORTS == U(0, 90, 0)

NoInstructions == [kind |-> "NoInstructions", msg |-> <<>>]
SolanaSimulateFailure(m) == [kind |-> "SolanaSimulateFailure", msg |-> m]
MessageError == [kind |-> "MessageError", msg |-> <<>>]
SignerError == [kind |-> "SignerError", msg |-> <<>>]
NumConversionError == [kind |-> "NumConversionError", msg |-> <<>>]
InvalidComputeUnits(n, m) == [kind |-> "InvalidComputeUnits", msg |-> <<n, m>>]
PriorityFeeTooHigh(f, c) == [kind |-> "PriorityFeeTooHigh", msg |-> <<f, c>>]
ComputeBudgetAlreadyPresent == [kind |-> "ComputeBudgetAlreadyPresent", msg |-> <<>>]
(* sorted_fees[index] on an index out of bounds: the thread panics.        *)
IndexPanic == [kind |-> "panic", msg |-> <<>>]

(* RpcPrioritizationFee { slot, prioritization_fee }                       *)
RpcPrioritizationFee(s, f) == [slot |-> s, prioritization_fee |-> f]

(* Vec<u64>::sort: ascending.                                              *)
RECURSIVE InsertSorted(_, _)
InsertSorted(x, s) ==
    IF s = <<>> THEN <<x>>
    ELSE IF Le(x, Head(s)) THEN <<x>> \o s
    ELSE <<Head(s)>> \o InsertSorted(x, Tail(s))

RECURSIVE sort(_)
sort(s) == IF s = <<>> THEN <<>> ELSE InsertSorted(Head(s), sort(Tail(s)))

MutFeeIndexNoSub(n, percentile) ==
    (n * min_u8(unwrap_or(percentile, 75), 100)) \div 100

(* The index calc_fee_internal selects, 0-based as in the code.            *)
fee_index(n, percentile) ==
    saturating_sub(n * min_u8(unwrap_or(percentile, 75), 100), 1) \div 100

(* The unit limit with its 10% buffer, capped.                             *)
buffered_limit(compute_unit_limit) ==
    min(saturating_add(compute_unit_limit, Div10(compute_unit_limit)),
        SOLANA_MAX_COMPUTE_UNITS)

(* CalcFeeResult { priority_fee, units, prioritization_fees }              *)
CalcFeeResult(f, u, fees) ==
    [priority_fee |-> f, units |-> u, prioritization_fees |-> fees]

MutNoCeiling(priority_fee) == FALSE
too_high(priority_fee) == Lt(MAX_ACCEPTABLE_PRIORITY_FEE_MICROLAMPORTS, priority_fee)

(* u64 -> u32 `.try_into()?`: the value converts only when it fits.        *)
MutTruncates(units) == TRUE
fits_u32(units) == Le(units, U32_MAX)

calc_fee_internal(prioritization_fees, sim_result, max_prioritization_fee, percentile) ==
    LET sorted_fees == sort([i \in 1..Len(prioritization_fees) |->
                                prioritization_fees[i].prioritization_fee])
        index == fee_index(Len(sorted_fees), percentile)
    IN  IF index >= Len(sorted_fees) THEN Err(IndexPanic)
        ELSE
        LET priority_fee == min(sorted_fees[index + 1], max_prioritization_fee)
        IN  IF too_high(priority_fee)
            THEN Err(PriorityFeeTooHigh(priority_fee,
                                        MAX_ACCEPTABLE_PRIORITY_FEE_MICROLAMPORTS))
            ELSE IF ~sim_result.units_consumed.some
            THEN Err(InvalidComputeUnits(0, "RPC returned no units"))
            ELSE IF ~fits_u32(sim_result.units_consumed.val)
            THEN Err(NumConversionError)
            ELSE Ok(CalcFeeResult(priority_fee,
                                  buffered_limit(sim_result.units_consumed.val),
                                  prioritization_fees))

(* --------------------------- instructions ----------------------------- *)
(* Instruction { program_id, data }; the accounts play no part here.       *)
ComputeBudgetID == "ComputeBudget111111111111111111111111111111"
SystemID == "11111111111111111111111111111111"
MemoID == "MemoSq4gqABAXKb96qnH8TysNcWxMyWCqXgDLGmfcHr"

transfer(lamports) == [program_id |-> SystemID, data |-> <<"Transfer", lamports>>]
build_memo(memo) == [program_id |-> MemoID, data |-> <<"Memo", memo>>]
set_compute_unit_limit(units) ==
    [program_id |-> ComputeBudgetID, data |-> <<"SetComputeUnitLimit", units>>]
set_compute_unit_price(micro_lamports) ==
    [program_id |-> ComputeBudgetID, data |-> <<"SetComputeUnitPrice", micro_lamports>>]

(* tests/common.rs random_instructions: three transfers.                   *)
random_instructions == <<transfer(1), transfer(2), transfer(3)>>

(* .iter().any(|ix| ix.program_id == solana_compute_budget_interface::ID)  *)
has_compute_budget(ixs) == \E i \in 1..Len(ixs) : ixs[i].program_id = ComputeBudgetID

(* The builder the caller holds.                                           *)
builder == [instructions |-> instructions,
            lookup_tables_keys |-> lookup_tables_keys,
            address_lookup_tables |-> address_lookup_tables]

MutPrependAlways(ixs, units, priority_fees) ==
    Ok(<<set_compute_unit_limit(units), set_compute_unit_price(priority_fees)>> \o ixs)

(* fee.rs prepend_compute_budget_instructions, on the instruction vector.   *)
prepend_compute_budget_instructions(ixs, units, priority_fees) ==
    IF has_compute_budget(ixs)
    THEN Err(ComputeBudgetAlreadyPresent)
    ELSE Ok(<<set_compute_unit_limit(units), set_compute_unit_price(priority_fees)>>
            \o ixs)

(* --------------------------- the provider ----------------------------- *)
(* The provider calls an operation makes, as they reach the provider.      *)
FeesCall == <<"Fees">>
LookupCall(keys) == <<"Lookup", keys>>
BlockhashCall == <<"Blockhash">>
SimulateCall(tx, config) == <<"Simulate", config.sig_verify, tx>>
SendCall(tx) == <<"Send", tx>>

(* RpcSimulateTransactionConfig { sig_verify, ..Default::default() }       *)
RpcSimulateTransactionConfig(sv) == [sig_verify |-> sv]
(* RpcSimulateTransactionResult { units_consumed, .. }                     *)
RpcSimulateTransactionResult(u) == [units_consumed |-> u]

(* VersionedMessage::V0 and VersionedMessage::Legacy                       *)
V0(ixs, accounts, hash) ==
    [version |-> "V0", instructions |-> ixs, address_table_lookups |-> accounts,
     recent_blockhash |-> hash]
Legacy(ixs, hash) ==
    [version |-> "Legacy", instructions |-> ixs, address_table_lookups |-> <<>>,
     recent_blockhash |-> hash]

(* VersionedTransaction { signatures, message }                            *)
VersionedTransaction(sigs, message) == [signatures |-> sigs, message |-> message]

(* What an operation returns and the provider calls it made.               *)
Outcome(r, l) == [res |-> r, log |-> l]

MutShapeKeysFirst(b) ==
    IF b.lookup_tables_keys.some THEN "keys"
    ELSE IF b.address_lookup_tables.some THEN "tables"
    ELSE "legacy"

(* The match of create_message: explicit tables, else keys, else neither.  *)
message_shape(b) ==
    IF b.address_lookup_tables.some THEN "tables"
    ELSE IF b.lookup_tables_keys.some THEN "keys"
    ELSE "legacy"

(* transaction.rs create_message.  env holds what the provider answers    *)
(* and whether try_compile and the signers succeed.                        *)
create_message(b, env) ==
    CASE message_shape(b) = "tables" ->
         IF ~env.blockhash.ok
         THEN Outcome(Err(env.blockhash.err), <<BlockhashCall>>)
         ELSE IF ~env.compile_ok
         THEN Outcome(Err(MessageError), <<BlockhashCall>>)
         ELSE Outcome(Ok(V0(b.instructions, b.address_lookup_tables.val,
                            env.blockhash.val)),
                      <<BlockhashCall>>)
      [] message_shape(b) = "keys" ->
         LET keys == b.lookup_tables_keys.val
         IN  IF ~env.lookup.ok
             THEN Outcome(Err(env.lookup.err), <<LookupCall(keys)>>)
             ELSE IF ~env.blockhash.ok
             THEN Outcome(Err(env.blockhash.err), <<LookupCall(keys), BlockhashCall>>)
             ELSE IF ~env.compile_ok
             THEN Outcome(Err(MessageError), <<LookupCall(keys), BlockhashCall>>)
             ELSE Outcome(Ok(V0(b.instructions, env.lookup.val, env.blockhash.val)),
                          <<LookupCall(keys), BlockhashCall>>)
      [] OTHER ->
         IF ~env.blockhash.ok
         THEN Outcome(Err(env.blockhash.err), <<BlockhashCall>>)
         ELSE Outcome(Ok(Legacy(b.instructions, env.blockhash.val)), <<BlockhashCall>>)

(* VersionedTransaction::try_new(message, signers)                         *)
try_new(message, env) ==
    IF env.sign_ok THEN Ok(VersionedTransaction("signed", message))
    ELSE Err(SignerError)

(* transaction.rs simulate_internal                                        *)
simulate_internal(env, tx, config) == Outcome(env.simulate, <<SimulateCall(tx, config)>>)

(* transaction.rs unsigned_tx                                              *)
unsigned_tx(b, env) ==
    LET m == create_message(b, env)
    IN  IF ~m.res.ok THEN m
        ELSE Outcome(Ok(VersionedTransaction("default", m.res.val)), m.log)

(* transaction.rs simulate                                                 *)
simulate(b, env, config) ==
    LET m == create_message(b, env)
    IN  IF ~m.res.ok THEN m
        ELSE LET tx == try_new(m.res.val, env)
             IN  IF ~tx.ok THEN Outcome(tx, m.log)
                 ELSE LET s == simulate_internal(env, tx.val, config)
                      IN  Outcome(s.res, m.log \o s.log)

MutSendIgnoresSimulation(r) == TRUE

(* send: `.await?` on the simulation lets it go on only on Ok.             *)
simulation_passed(r) == r.ok

(* transaction.rs send                                                     *)
send(b, env) ==
    LET m == create_message(b, env)
    IN  IF ~m.res.ok THEN m
        ELSE LET tx == try_new(m.res.val, env)
             IN  IF ~tx.ok THEN Outcome(tx, m.log)
                 ELSE
                 LET s == simulate_internal(env, tx.val,
                                            RpcSimulateTransactionConfig(TRUE))
                 IN  IF ~simulation_passed(s.res)
                     THEN Outcome(Err(s.res.err), m.log \o s.log)
                     ELSE
                     LET l == m.log \o s.log \o <<SendCall(tx.val)>>
                     IN  IF env.send.ok THEN Outcome(env.send, l)
                         ELSE Outcome(Err(SolanaRpcError(
                                  <<"failed to send transaction: ">>
                                  \o to_string(env.send.err))), l)

(* fee.rs get_recent_prioritization_fees                                   *)
get_recent_prioritization_fees(env) ==
    IF env.fees.ok THEN Outcome(env.fees, <<FeesCall>>)
    ELSE Outcome(Err(SolanaRpcError(<<"failed to get_recent_prioritization_fees: ">>
                                    \o to_string(env.fees.err))),
                 <<FeesCall>>)

MutFeesNeverEmpty(prioritization_fees) == FALSE

(* prioritization_fees.is_empty()                                          *)
fees_is_empty(prioritization_fees) == prioritization_fees = <<>>

MutFeeSimulationVerifies == RpcSimulateTransactionConfig(TRUE)

(* calc_fee simulates the unsigned transaction without signature checks.   *)
fee_simulation_config == RpcSimulateTransactionConfig(FALSE)

(* fee.rs calc_fee                                                         *)
calc_fee(b, env, max_prioritization_fee, percentile) ==
    IF b.instructions = <<>> THEN Outcome(Err(NoInstructions), <<>>)
    ELSE
    LET f == get_recent_prioritization_fees(env)
    IN  IF ~f.res.ok THEN f
        ELSE IF fees_is_empty(f.res.val)
        THEN Outcome(Err(SolanaRpcError(<<"No prioritization fees available">>)), f.log)
        ELSE
        LET tx == unsigned_tx(b, env)
        IN  IF ~tx.res.ok THEN Outcome(tx.res, f.log \o tx.log)
            ELSE
            LET s == simulate_internal(env, tx.res.val, fee_simulation_config)
                l == f.log \o tx.log \o s.log
            IN  IF ~s.res.ok THEN Outcome(s.res, l)
                ELSE Outcome(calc_fee_internal(f.res.val, s.res.val,
                                               max_prioritization_fee, percentile), l)

MutWpfNoShortCircuit(b, env, max_prioritization_fee, percentile) ==
    LET result == calc_fee(b, env, max_prioritization_fee, percentile)
    IN  IF ~result.res.ok THEN result
        ELSE Outcome(prepend_compute_budget_instructions(
                         b.instructions, result.res.val.units,
                         result.res.val.priority_fee),
                     result.log)

(* fee.rs with_priority_fees, returning the instruction vector of the      *)
(* builder it hands back.                                                  *)
with_priority_fees(b, env, max_prioritization_fee, percentile) ==
    IF has_compute_budget(b.instructions) THEN Outcome(Ok(b.instructions), <<>>)
    ELSE
    LET result == calc_fee(b, env, max_prioritization_fee, percentile)
    IN  IF ~result.res.ok THEN result
        ELSE Outcome(prepend_compute_budget_instructions(
                         b.instructions, result.res.val.units,
                         result.res.val.priority_fee),
                     result.log)

(* ------------------------- builder operations ------------------------- *)
(* Every operation records itself in tx_ret: its name, the builder it was  *)
(* called on, its arguments and what it returned; rpc_log is the provider  *)
(* calls it made.  An operation that consumes the builder and fails leaves *)
(* the caller with the clone it kept (tests/fees.rs:94).                   *)
Record(op, args, out) ==
    /\ tx_ret' = [op |-> op, self |-> builder, args |-> args, res |-> out.res]
    /\ rpc_log' = out.log
    /\ UNCHANGED <<cache_vars, ctr_vars>>

Done == Outcome(Ok(<<>>), <<>>)

(* From<Vec<Instruction>> for TransactionBuilder                           *)
from(ixs) ==
    /\ instructions' = ixs
    /\ lookup_tables_keys' = None
    /\ address_lookup_tables' = None
    /\ Record("from", <<ixs>>, Done)

push(ix) ==
    /\ Len(instructions) < MaxIx
    /\ instructions' = Append(instructions, ix)
    /\ UNCHANGED <<lookup_tables_keys, address_lookup_tables>>
    /\ Record("push", <<ix>>, Done)

MutMemoFirst(memo) ==
    /\ Len(instructions) < MaxIx
    /\ instructions' = <<build_memo(memo)>> \o instructions
    /\ UNCHANGED <<lookup_tables_keys, address_lookup_tables>>
    /\ Record("with_memo", <<memo>>, Done)
with_memo(memo) ==
    /\ Len(instructions) < MaxIx
    /\ instructions' = Append(instructions, build_memo(memo))
    /\ UNCHANGED <<lookup_tables_keys, address_lookup_tables>>
    /\ Record("with_memo", <<memo>>, Done)

append(builders) ==
    /\ Len(instructions) + Len(builders) <= MaxIx
    /\ instructions' = instructions \o builders
    /\ UNCHANGED <<lookup_tables_keys, address_lookup_tables>>
    /\ Record("append", <<builders>>, Done)

MutKeysReplaced(keys) ==
    /\ Len(unwrap_or(lookup_tables_keys, <<>>)) + Len(keys) <= MaxKeys
    /\ lookup_tables_keys' = Some(keys)
    /\ UNCHANGED <<instructions, address_lookup_tables>>
    /\ Record("with_lookup_keys", <<keys>>, Done)
with_lookup_keys(keys) ==
    /\ Len(unwrap_or(lookup_tables_keys, <<>>)) + Len(keys) <= MaxKeys
    /\ lookup_tables_keys' = Some(unwrap_or(lookup_tables_keys, <<>>) \o keys)
    /\ UNCHANGED <<instructions, address_lookup_tables>>
    /\ Record("with_lookup_keys", <<keys>>, Done)

with_address_tables(tables) ==
    /\ Len(unwrap_or(address_lookup_tables, <<>>)) + Len(tables) <= MaxKeys
    /\ address_lookup_tables' = Some(unwrap_or(address_lookup_tables, <<>>) \o tables)
    /\ UNCHANGED <<instructions, lookup_tables_keys>>
    /\ Record("with_address_tables", <<tables>>, Done)

call_prepend(units, priority_fees) ==
    LET r == prepend_compute_budget_instructions(instructions, units, priority_fees)
    IN  /\ r.ok => Len(instructions) + 2 <= MaxIx
        /\ instructions' = IF r.ok THEN r.val ELSE instructions
        /\ UNCHANGED <<lookup_tables_keys, address_lookup_tables>>
        /\ Record("prepend", <<units, priority_fees>>, Outcome(r, <<>>))

call_with_priority_fees(env, max_prioritization_fee, percentile) ==
    LET o == with_priority_fees(builder, env, max_prioritization_fee, percentile)
    IN  /\ o.res.ok => Len(instructions) + 2 <= MaxIx
        /\ instructions' = IF o.res.ok THEN o.res.val ELSE instructions
        /\ UNCHANGED <<lookup_tables_keys, address_lookup_tables>>
        /\ Record("with_priority_fees", <<env, max_prioritization_fee, percentile>>, o)

call_calc_fee(env, max_prioritization_fee, percentile) ==
    /\ UNCHANGED builder_vars
    /\ Record("calc_fee", <<env, max_prioritization_fee, percentile>>,
              calc_fee(builder, env, max_prioritization_fee, percentile))

call_create_message(env) ==
    /\ UNCHANGED builder_vars
    /\ Record("create_message", <<env>>, create_message(builder, env))

call_simulate(env, config) ==
    /\ UNCHANGED builder_vars
    /\ Record("simulate", <<env, config>>, simulate(builder, env, config))

call_send(env) ==
    /\ UNCHANGED builder_vars
    /\ Record("send", <<env>>, send(builder, env))

(* ----------------------- what the provider answers -------------------- *)
Env(fees, lookup, hash, compile_ok, sign_ok, sim, sent) ==
    [fees |-> fees, lookup |-> lookup, blockhash |-> hash, compile_ok |-> compile_ok,
     sign_ok |-> sign_ok, simulate |-> sim, send |-> sent]

(* Vec<RpcPrioritizationFee> of the given rates, one per slot.             *)
Samples(rates) == [i \in 1..Len(rates) |-> RpcPrioritizationFee(i, rates[i])]

SimulationFailed == SolanaSimulateFailure(<<"InstructionError">>)

(* The builder operations alone, with a provider that answers or fails.    *)
PushIxs == {set_compute_unit_price(U(0, 0, 1))}
Memos == {"soly"}
KeyArgs == {<<"A">>}
TableArgs == {<<Table("A", 1)>>}
PrependArgs == {<<U(0, 0, 1000000), U(0, 0, 200000)>>}
FeeArgs == {<<U(0, 0, 1000000), Some(50)>>}

GoodEnv ==
    Env(Ok(Samples(<<U(0, 0, 5)>>)), Ok(<<Table("A", 1)>>), Ok(1), TRUE, TRUE,
        Ok(RpcSimulateTransactionResult(Some(U(0, 0, 100)))), Ok("signature"))
BuildEnvs == {GoodEnv, [GoodEnv EXCEPT !.fees = Err(TransportErr)]}

NextBuild ==
    \/ from(random_instructions)
    \/ \E ix \in PushIxs : push(ix)
    \/ \E m \in Memos : with_memo(m)
    \/ append(<<transfer(4), transfer(5)>>)
    \/ \E ks \in KeyArgs : with_lookup_keys(ks)
    \/ \E ts \in TableArgs : with_address_tables(ts)
    \/ \E a \in PrependArgs : call_prepend(a[1], a[2])
    \/ \E env \in BuildEnvs, a \in FeeArgs : call_with_priority_fees(env, a[1], a[2])

SpecBuild == Init /\ [][NextBuild]_vars

(* Compiling, simulating and sending against the provider's answers: each  *)
(* operation under every combination of the answers it can meet.           *)
MsgEnvs ==
    {[GoodEnv EXCEPT !.lookup = l, !.blockhash = h, !.compile_ok = c] :
        l \in {Ok(<<Table("A", 1)>>), Err(TransportErr)},
        h \in {Ok(1), Err(TransportErr)},
        c \in BOOLEAN}
TxEnvs ==
    {[e EXCEPT !.sign_ok = s, !.simulate = sim] :
        e \in MsgEnvs,
        s \in BOOLEAN,
        sim \in {GoodEnv.simulate, Err(SimulationFailed), Err(TransportErr)}}
SendEnvs == {[e EXCEPT !.send = sent] : e \in TxEnvs,
                                        sent \in {Ok("signature"), Err(TransportErr)}}
FeeTxEnvs ==
    {[e EXCEPT !.fees = f, !.simulate = sim] :
        e \in MsgEnvs,
        f \in {GoodEnv.fees, Ok(<<>>), Err(TransportErr)},
        sim \in {GoodEnv.simulate, Ok(RpcSimulateTransactionResult(None)),
                 Err(SimulationFailed)}}

NextSend ==
    \/ from(random_instructions)
    \/ \E ks \in KeyArgs : with_lookup_keys(ks)
    \/ \E ts \in TableArgs : with_address_tables(ts)
    \/ \E env \in MsgEnvs : call_create_message(env)
    \/ \E env \in TxEnvs, sv \in BOOLEAN :
          call_simulate(env, RpcSimulateTransactionConfig(sv))
    \/ \E env \in SendEnvs : call_send(env)
    \/ \E env \in FeeTxEnvs, a \in FeeArgs : call_calc_fee(env, a[1], a[2])
    \/ \E env \in FeeTxEnvs, a \in FeeArgs : call_with_priority_fees(env, a[1], a[2])

SpecSend == Init /\ [][NextSend]_vars

(* calc_fee over fee samples, percentiles, caps and simulated units.       *)
FeeRates == {U(0, 0, 5), U(0, 0, 200000), U(0, 90, 1)}
RECURSIVE RateLists(_)
RateLists(n) ==
    IF n = 0 THEN {<<>>}
    ELSE RateLists(n - 1)
         \cup {Append(s, r) : s \in {t \in RateLists(n - 1) : Len(t) = n - 1},
                              r \in FeeRates}
MaxFeeArgs == {Zero, U(0, 0, 1000000), MAX_ACCEPTABLE_PRIORITY_FEE_MICROLAMPORTS,
               U64_MAX}
Percentiles == {None, Some(0), Some(1), Some(50), Some(100), Some(101), Some(255)}
UnitsConsumed ==
    {None, Some(Zero), Some(U(0, 0, 9)), Some(U(0, 0, 1272727)),
     Some(U(0, 0, 1272728)), Some(SOLANA_MAX_COMPUTE_UNITS),
     Some(U(0, 3, 904515723)), Some(U(0, 3, 904515724)), Some(U32_MAX),
     Some(U(0, 4, 294967296)), Some(U64_MAX)}

FeeEnvs ==
    {[GoodEnv EXCEPT !.fees = Ok(Samples(rates)),
                     !.simulate = Ok(RpcSimulateTransactionResult(u))] :
        rates \in RateLists(MaxFees), u \in UnitsConsumed}

(* The caller makes a builder and asks calc_fee for its fee.                *)
NextFee ==
    \/ from(random_instructions)
    \/ /\ tx_ret.op # "calc_fee"
       /\ \E env \in FeeEnvs, m \in MaxFeeArgs, p \in Percentiles :
             call_calc_fee(env, m, p)

SpecFee == Init /\ [][NextFee]_vars

(* ====================== base providers (native, trace) ================ *)
(* What RpcClient::simulate_transaction_with_config hands back: a client   *)
(* error, or Response { value: RpcSimulateTransactionResult { err, logs,    *)
(* units_consumed } }.                                                      *)
SimulateValue(err, logs, units) ==
    [err |-> err, logs |-> logs, units_consumed |-> units]

(* BASE64_STANDARD.encode(bincode::serialize(&tx))                          *)
base64(tx) == <<"base64", tx>>

(* format!("{e}\nbase64: {transaction_base64}\n{}", logs.join("\n"))       *)
failure_msg(e, tx, logs) == <<e, base64(tx), unwrap_or(logs, <<>>)>>

(* `if let Some(e) = result.value.err`                                     *)
simulation_failed(response) == response.val.err.some

(* rpc/native.rs simulate_transaction for Arc<RpcClient>                   *)
native_simulate_transaction(tx, config, response) ==
    IF ~response.ok
    THEN Err(SolanaRpcError(<<"failed to simulate transaction: ">> \o response.err.msg))
    ELSE IF simulation_failed(response)
    THEN Err(SolanaSimulateFailure(failure_msg(response.val.err.val, tx,
                                               response.val.logs)))
    ELSE Ok(response.val)

(* rpc/trace.rs TraceNativeProvider::simulate_transaction                  *)
trace_simulate_transaction(tx, config, response) ==
    IF ~response.ok
    THEN Err(SolanaRpcError(<<"failed to simulate transaction: ">> \o response.err.msg))
    ELSE IF simulation_failed(response)
    THEN Err(SolanaSimulateFailure(failure_msg(response.val.err.val, tx,
                                               response.val.logs)))
    ELSE Ok(response.val)

(* The caller simulates the builder's unsigned transaction through a base  *)
(* provider whose client answers with `response`.                          *)
call_native_simulate(config, response) ==
    LET tx == unsigned_tx(builder, GoodEnv).res.val
    IN  /\ instructions # <<>>
        /\ UNCHANGED builder_vars
        /\ Record("native_simulate", <<tx, config, response>>,
                  Outcome(native_simulate_transaction(tx, config, response),
                          <<SimulateCall(tx, config)>>))

call_trace_simulate(config, response) ==
    LET tx == unsigned_tx(builder, GoodEnv).res.val
    IN  /\ instructions # <<>>
        /\ UNCHANGED builder_vars
        /\ Record("trace_simulate", <<tx, config, response>>,
                  Outcome(trace_simulate_transaction(tx, config, response),
                          <<SimulateCall(tx, config)>>))

(* The client's answers: a transport error, a clean result, a result       *)
(* carrying a TransactionError with or without logs.                       *)
ClientLogs == {None, Some(<<>>), Some(<<"Program log: failed">>)}
ClientUnits == {None, Some(U(0, 0, 100))}
ClientResponses ==
    {Err(TransportErr)}
    \cup {Ok(SimulateValue(e, l, u)) :
            e \in {None, Some("InstructionError"), Some("BlockhashNotFound")},
            l \in ClientLogs, u \in ClientUnits}

NextBase ==
    \/ from(random_instructions)
    \/ \E m \in Memos : with_memo(m)
    \/ \E ks \in KeyArgs : with_lookup_keys(ks)
    \/ \E sv \in BOOLEAN, r \in ClientResponses :
          call_native_simulate(RpcSimulateTransactionConfig(sv), r)
    \/ \E sv \in BOOLEAN, r \in ClientResponses :
          call_trace_simulate(RpcSimulateTransactionConfig(sv), r)

SpecBase == Init /\ [][NextBase]_vars

(* ====================== CounterRpcProvider ============================ *)
(* Clones of one CounterRpcProvider share `counters`; the callers below    *)
(* call it directly, each through its own clone.                           *)
CtrCallers == {"c1", "c2"}

MutCloneOwnCounters(method) == 0
(* rpc/counter.rs get_counter                                              *)
get_counter(method) == IF method \in DOMAIN counters THEN counters[method] ELSE 0

CounterTotal ==
    counters["Blockhash"] + counters["Lookup"] + counters["Simulate"]
        + counters["Send"] + counters["Fees"]
CounterCallsLeft == CounterTotal < MaxCalls

MutLostUpdate(method) ==
    IF \E c \in Callers : ctr_call[c] = method THEN counters[method]
    ELSE counters[method] + 1

(* `*self.counters.get_mut(&method).unwrap() += 1`: DashMap's get_mut      *)
(* holds the entry's write lock across the read and the write.             *)
incremented(method) == counters[method] + 1

(* What the inner provider answers an operation with.                      *)
InnerAnswers == {Ok(1), Err(TransportErr)}

(* CounterRpcProvider::<operation>, up to its await: the counter of the    *)
(* operation is incremented and the call is handed to inner.               *)
counter_call(c, method) ==
    /\ pc[c] = "idle"
    /\ CounterCallsLeft
    /\ counters' = [counters EXCEPT ![method] = incremented(method)]
    /\ ctr_call' = [ctr_call EXCEPT ![c] = method]
    /\ pc' = [pc EXCEPT ![c] = "ctr_inner"]
    /\ h_direct' = [h_direct EXCEPT ![method] = @ + 1]
    /\ h_quiet' = FALSE
    /\ UNCHANGED <<now, bh_vars, lk_vars, ret, arc_err, arc_holders, h_alone, h_failed,
                   reset_left, tx_vars>>

MutCountOnSuccess(c, answer) ==
    /\ pc[c] = "ctr_inner"
    /\ pc' = [pc EXCEPT ![c] = "done"]
    /\ ret' = [ret EXCEPT ![c] = answer]
    /\ counters' = [counters EXCEPT ![ctr_call[c]] = IF answer.ok THEN @ ELSE @ - 1]
    /\ ctr_call' = [ctr_call EXCEPT ![c] = "none"]
    /\ UNCHANGED <<now, bh_vars, lk_vars, arc_err, arc_holders, h_alone,
                   h_failed, reset_left, h_direct, h_quiet, h_op, tx_vars>>
(* ... `self.inner.<operation>(..).await`: inner's answer is the result.   *)
counter_return(c, answer) ==
    /\ pc[c] = "ctr_inner"
    /\ pc' = [pc EXCEPT ![c] = "done"]
    /\ ret' = [ret EXCEPT ![c] = answer]
    /\ ctr_call' = [ctr_call EXCEPT ![c] = "none"]
    /\ UNCHANGED <<now, counters, bh_vars, lk_vars, arc_err, arc_holders, h_alone,
                   h_failed, reset_left, h_direct, h_quiet, h_op, tx_vars>>

(* rpc/counter.rs reset_counters: `self.counters.iter_mut()` is created.   *)
reset_begin ==
    /\ reset_left = {}
    /\ reset_left' = RpcMethod
    /\ h_quiet' = TRUE
    /\ UNCHANGED <<cache_vars, ctr_call, h_direct, h_op, h_compiled, tx_vars>>

(* ... the iterator visits one shard of the DashMap: it takes that shard's *)
(* write lock, zeroes the entries the shard holds and releases the lock.   *)
(* Which entries share a shard depends on the map's random hasher.         *)
reset_shard(entries) ==
    /\ entries # {} /\ entries \subseteq reset_left
    /\ counters' = [m \in RpcMethod |-> IF m \in entries THEN 0 ELSE counters[m]]
    /\ h_direct' = [m \in RpcMethod |-> IF m \in entries THEN 0 ELSE h_direct[m]]
    /\ reset_left' = reset_left \ entries
    /\ UNCHANGED <<now, bh_vars, lk_vars, task_vars, ctr_call, h_quiet, h_op, h_compiled,
                   tx_vars>>

(* Callers use clones of one counter provider while a test resets it.      *)
NextReset ==
    \/ \E c \in CtrCallers, m \in RpcMethod : counter_call(c, m) /\ UNCHANGED <<h_op, h_compiled>>
    \/ \E c \in CtrCallers, a \in InnerAnswers : counter_return(c, a) /\ UNCHANGED h_compiled
    \/ \E c \in CtrCallers : Return(c) /\ UNCHANGED <<tx_vars, ctr_vars>>
    \/ reset_begin
    \/ \E entries \in SUBSET RpcMethod : reset_shard(entries)

SpecReset == Init /\ [][NextReset]_vars

(* Callers use the counter provider directly and through a                 *)
(* BlockHashCacheProvider placed above a clone of it.                      *)
NextCounter ==
    \/ \E c \in CtrCallers, m \in RpcMethod : counter_call(c, m) /\ UNCHANGED <<h_op, h_compiled>>
    \/ \E c \in CtrCallers, a \in InnerAnswers : counter_return(c, a) /\ UNCHANGED h_compiled
    \/ \E c \in CtrCallers : get_latest_blockhash(c) /\ UNCHANGED <<tx_vars, ctr_vars>>
    \/ \E c \in CtrCallers : bh_init_ok(c) /\ UNCHANGED <<tx_vars, ctr_vars>>
    \/ \E c \in CtrCallers : bh_init_err(c) /\ UNCHANGED <<tx_vars, ctr_vars>>
    \/ \E c \in CtrCallers : bh_map_err(c) /\ UNCHANGED <<tx_vars, ctr_vars>>
    \/ \E c \in CtrCallers : Return(c) /\ UNCHANGED <<tx_vars, ctr_vars>>

SpecCounter == Init /\ [][NextCounter]_vars

(* ====================== SimpleCacheProvider =========================== *)
(* The three components, as tests/cache.rs test_simple_cache builds them:  *)
(* inner is the counter provider, and the two cache decorators each wrap a *)
(* clone of it.                                                            *)
MutAllToInner(method) == "inner"

(* rpc/simple.rs: the field each operation of the composite calls.         *)
simple_target(method) ==
    CASE method = "Blockhash" -> "blockhash_cache"
      [] method = "Lookup" -> "lookup_cache"
      [] OTHER -> "inner"

(* SolanaRpcProvider for SimpleCacheProvider: the operation `method`, with *)
(* `keys` the argument of get_lookup_table_accounts.                       *)
simple_call(c, method, keys) ==
    /\ h_op' = [h_op EXCEPT ![c] = method]
    /\ CASE simple_target(method) = "blockhash_cache" ->
              /\ get_latest_blockhash(c)
              /\ UNCHANGED <<tx_vars, ctr_call, reset_left, h_direct, h_quiet, h_compiled>>
         [] simple_target(method) = "lookup_cache" ->
              /\ get_lookup_table_accounts(c, keys)
              /\ UNCHANGED <<tx_vars, ctr_call, reset_left, h_direct, h_quiet, h_compiled>>
         [] OTHER -> counter_call(c, method) /\ UNCHANGED h_compiled

SimpleCallers == {"c1", "c2"}
SimpleKeyLists == {<<"A", "B">>}

NextSimple ==
    \/ \E c \in SimpleCallers, m \in RpcMethod, ks \in SimpleKeyLists : simple_call(c, m, ks)
    \/ \E c \in SimpleCallers, a \in InnerAnswers : counter_return(c, a) /\ UNCHANGED h_compiled
    \/ \E c \in SimpleCallers : bh_init_ok(c) /\ UNCHANGED <<tx_vars, ctr_vars>>
    \/ \E c \in SimpleCallers : bh_init_err(c) /\ UNCHANGED <<tx_vars, ctr_vars>>
    \/ \E c \in SimpleCallers : bh_map_err(c) /\ UNCHANGED <<tx_vars, ctr_vars>>
    \/ \E c \in SimpleCallers : lk_next_key(c) /\ UNCHANGED <<tx_vars, ctr_vars>>
    \/ \E c \in SimpleCallers : lk_init_ok(c) /\ UNCHANGED <<tx_vars, ctr_vars>>
    \/ \E c \in SimpleCallers : lk_init_empty(c) /\ UNCHANGED <<tx_vars, ctr_vars>>
    \/ \E c \in SimpleCallers : lk_init_err(c) /\ UNCHANGED <<tx_vars, ctr_vars>>
    \/ \E c \in SimpleCallers : lk_map_err(c) /\ UNCHANGED <<tx_vars, ctr_vars>>
    \/ \E c \in SimpleCallers : Return(c) /\ UNCHANGED <<tx_vars, ctr_vars>>

SpecSimple == Init /\ [][NextSimple]_vars

(* ====================== compiling through the stack =================== *)
(* create_message against a provider stack: the assembler asks the         *)
(* provider for the blockhash, directly at the counter provider            *)
(* ("uncached") or through the BlockHashCacheProvider above it ("cached"), *)
(* and compiles with the answer.                                           *)
Providers == {"cached", "uncached"}
MaxCompiles == 3
CompileCallers == {"c1"}
CompilesLeft == h_compiled["cached"] + h_compiled["uncached"] < MaxCompiles

(* create_message up to `TransactionBuilder::get_latest_blockhash(rpc)     *)
(* .await`, for a builder that needs no lookup-table resolution.           *)
compile_begin(c, provider) ==
    /\ message_shape(builder) # "keys"
    /\ CompilesLeft
    /\ h_op' = [h_op EXCEPT ![c] = provider]
    /\ IF provider = "cached"
       THEN /\ get_latest_blockhash(c)
            /\ UNCHANGED <<tx_vars, ctr_call, reset_left, h_direct, h_quiet, h_compiled>>
       ELSE /\ counter_call(c, "Blockhash")
            /\ UNCHANGED h_compiled

MutReusesBlockhash(c) ==
    [GoodEnv EXCEPT !.blockhash =
        IF tx_ret.op = "create_message" /\ tx_ret.res.ok
        THEN Ok(tx_ret.res.val.recent_blockhash) ELSE ret[c]]

(* What the provider answered this call of create_message.                 *)
compile_env(c) == [GoodEnv EXCEPT !.blockhash = ret[c]]

(* ... the provider's answer is back: `?`, then the message is compiled    *)
(* with that blockhash and handed to the caller.                           *)
compile_finish(c) ==
    LET out == create_message(builder, compile_env(c))
    IN  /\ h_op[c] \in Providers
        /\ Return(c)
        /\ tx_ret' = [op |-> "create_message", self |-> builder,
                      args |-> <<h_op[c], ret[c]>>, res |-> out.res]
        /\ rpc_log' = out.log
        /\ h_compiled' = [h_compiled EXCEPT ![h_op[c]] = IF out.res.ok THEN @ + 1 ELSE @]
        /\ h_op' = [h_op EXCEPT ![c] = "none"]
        /\ UNCHANGED <<builder_vars, ctr_call, reset_left, h_direct, h_quiet>>

NextCompile ==
    \/ Tick /\ UNCHANGED <<tx_vars, ctr_vars>>
    \/ ChainAdvance /\ UNCHANGED <<tx_vars, ctr_vars>>
    \/ from(random_instructions)
    \/ \E ts \in TableArgs : with_address_tables(ts)
    \/ \E c \in CompileCallers, p \in Providers : compile_begin(c, p)
    \/ \E c \in CompileCallers, a \in {Ok(chain_hash), Err(TransportErr)} :
          counter_return(c, a) /\ UNCHANGED h_compiled
    \/ \E c \in CompileCallers : bh_init_ok(c) /\ UNCHANGED <<tx_vars, ctr_vars>>
    \/ \E c \in CompileCallers : bh_init_err(c) /\ UNCHANGED <<tx_vars, ctr_vars>>
    \/ \E c \in CompileCallers : bh_map_err(c) /\ UNCHANGED <<tx_vars, ctr_vars>>
    \/ \E c \in CompileCallers : compile_finish(c)

SpecCompile == Init /\ [][NextCompile]_vars

(* ====================== the builder's lists =========================== *)
(* impl Extend<Instruction> for TransactionBuilder                         *)
extend(iter) ==
    /\ Len(instructions) + Len(iter) <= MaxIx
    /\ instructions' = instructions \o iter
    /\ UNCHANGED <<lookup_tables_keys, address_lookup_tables>>
    /\ Record("extend", <<iter>>, Done)

(* The builder methods that add instructions, lookup keys and tables,      *)
(* called in any order with arguments that tell the calls apart.           *)
ListPushIxs == {transfer(8)}
ListKeyArgs == {<<"A">>, <<"B">>}
ListTableArgs == {<<Table("A", 1)>>}

NextLists ==
    \/ from(random_instructions)
    \/ \E ix \in ListPushIxs : push(ix)
    \/ \E m \in Memos : with_memo(m)
    \/ append(<<transfer(4), transfer(5)>>)
    \/ extend(<<transfer(6), transfer(7)>>)
    \/ \E ks \in ListKeyArgs : with_lookup_keys(ks)
    \/ \E ts \in ListTableArgs : with_address_tables(ts)

SpecLists == Init /\ [][NextLists]_vars

(* ------------- LookupTableCacheProvider: management ------------------- *)
(* src/src/rpc/lookup.rs: the counts read entry_count() as the last        *)
(* run_pending_tasks left it; the clears invalidate every entry of a cache *)
(* and run its pending tasks.                                              *)
is_empty == lookup_count = 0
is_empty_negative == negative_count = 0

MutClearsBoth ==
    /\ lookup_cache' = [k \in Keys |-> EmptyEntry]
    /\ lookup_count' = 0
    /\ negative_cache' = [k \in Keys |-> EmptyMark]
    /\ negative_count' = 0
    /\ UNCHANGED <<now, counters, bh_vars, lookups, lk_waiter, pubkeys, idx, resolved,
                   h_since, h_lk_served, h_missed, h_synced, task_vars>>
clear_lookups ==
    /\ lookup_cache' = [k \in Keys |-> EmptyEntry]
    /\ lookup_count' = 0
    /\ UNCHANGED <<now, counters, bh_vars, lookups, negative_cache, negative_count,
                   lk_waiter, pubkeys, idx, resolved, h_since, h_lk_served, h_missed,
                   h_synced, task_vars>>

clear_negative ==
    /\ negative_cache' = [k \in Keys |-> EmptyMark]
    /\ negative_count' = 0
    /\ UNCHANGED <<now, counters, bh_vars, lookups, lookup_cache, lookup_count,
                   lk_waiter, pubkeys, idx, resolved, h_since, h_lk_served, h_missed,
                   h_synced, task_vars>>

(* clear_all(): clear_lookups(), then clear_negative().                    *)
clear_all ==
    /\ lookup_cache' = [k \in Keys |-> EmptyEntry]
    /\ lookup_count' = 0
    /\ negative_cache' = [k \in Keys |-> EmptyMark]
    /\ negative_count' = 0
    /\ UNCHANGED <<now, counters, bh_vars, lookups, lk_waiter, pubkeys, idx, resolved,
                   h_since, h_lk_served, h_missed, h_synced, task_vars>>

(* One caller resolving key lists, one of them with a key asked for twice, *)
(* while the caches are synchronized and cleared.                          *)
MgmtKeyLists == {<<"A", "B", "C">>, <<"B", "A", "B">>}

NextMgmt ==
    \/ Tick /\ UNCHANGED <<tx_vars, ctr_vars>>
    \/ \E k \in ChainKeys, v \in {0, 1} : ChainSet(k, v) /\ UNCHANGED <<tx_vars, ctr_vars>>
    \/ sync /\ UNCHANGED <<tx_vars, ctr_vars>>
    \/ clear_lookups /\ UNCHANGED <<tx_vars, ctr_vars>>
    \/ clear_negative /\ UNCHANGED <<tx_vars, ctr_vars>>
    \/ clear_all /\ UNCHANGED <<tx_vars, ctr_vars>>
    \/ \E c \in SeqCallers, ks \in MgmtKeyLists : get_lookup_table_accounts(c, ks) /\ UNCHANGED <<tx_vars, ctr_vars>>
    \/ \E c \in SeqCallers : lk_next_key(c) /\ UNCHANGED <<tx_vars, ctr_vars>>
    \/ \E c \in SeqCallers : lk_init_ok(c) /\ UNCHANGED <<tx_vars, ctr_vars>>
    \/ \E c \in SeqCallers : lk_init_empty(c) /\ UNCHANGED <<tx_vars, ctr_vars>>
    \/ \E c \in SeqCallers : lk_init_err(c) /\ UNCHANGED <<tx_vars, ctr_vars>>
    \/ \E c \in SeqCallers : lk_map_err(c) /\ UNCHANGED <<tx_vars, ctr_vars>>
    \/ \E c \in SeqCallers : Return(c) /\ UNCHANGED <<tx_vars, ctr_vars>>

SpecMgmt == Init /\ [][NextMgmt]_vars

(* ============ cache decorators: the operations passed through ========= *)
(* rpc/blockhash.rs and rpc/lookup.rs: every operation a decorator does    *)
(* not cache is `self.inner.<operation>(..).await`; inner is a clone of    *)
(* the counter provider, as in test_blockhash_cache_provider.              *)
BhForwarded == {"Fees", "Lookup", "Simulate", "Send"}
LkForwarded == {"Fees", "Blockhash", "Simulate", "Send"}

MutBhAnswersItself(c, method) ==
    /\ method \in BhForwarded
    /\ pc[c] = "idle"
    /\ h_op' = [h_op EXCEPT ![c] = "BlockHashCacheProvider"]
    /\ pc' = [pc EXCEPT ![c] = "done"]
    /\ ret' = [ret EXCEPT ![c] = Ok(1)]
    /\ UNCHANGED <<now, counters, bh_vars, lk_vars, arc_err, arc_holders, h_alone,
                   h_failed, ctr_call, reset_left, h_direct, h_quiet, h_compiled, tx_vars>>
(* BlockHashCacheProvider: get_recent_prioritization_fees,                 *)
(* get_lookup_table_accounts, simulate_transaction and                     *)
(* send_and_confirm_transaction.                                           *)
bh_forward(c, method) ==
    /\ method \in BhForwarded
    /\ h_op' = [h_op EXCEPT ![c] = "BlockHashCacheProvider"]
    /\ counter_call(c, method)
    /\ UNCHANGED h_compiled

(* LookupTableCacheProvider: get_recent_prioritization_fees,               *)
(* get_latest_blockhash, simulate_transaction and                          *)
(* send_and_confirm_transaction.                                           *)
lk_forward(c, method) ==
    /\ method \in LkForwarded
    /\ h_op' = [h_op EXCEPT ![c] = "LookupTableCacheProvider"]
    /\ counter_call(c, method)
    /\ UNCHANGED h_compiled

(* The caller takes the result of a decorator call.                        *)
pass_return(c) ==
    /\ Return(c)
    /\ h_op' = [h_op EXCEPT ![c] = "none"]
    /\ UNCHANGED <<tx_vars, ctr_call, reset_left, h_direct, h_quiet, h_compiled>>

PassCallers == {"c1", "c2"}
PassKeyLists == {<<"A">>}

(* Two callers use both decorators, the cached operations included, so     *)
(* that the caches hold entries while operations are passed through.       *)
NextPass ==
    \/ \E c \in PassCallers, m \in BhForwarded : bh_forward(c, m)
    \/ \E c \in PassCallers, m \in LkForwarded : lk_forward(c, m)
    \/ \E c \in PassCallers, a \in InnerAnswers : counter_return(c, a) /\ UNCHANGED h_compiled
    \/ \E c \in PassCallers : get_latest_blockhash(c) /\ UNCHANGED <<tx_vars, ctr_vars>>
    \/ \E c \in PassCallers : bh_init_ok(c) /\ UNCHANGED <<tx_vars, ctr_vars>>
    \/ \E c \in PassCallers : bh_init_err(c) /\ UNCHANGED <<tx_vars, ctr_vars>>
    \/ \E c \in PassCallers : bh_map_err(c) /\ UNCHANGED <<tx_vars, ctr_vars>>
    \/ \E c \in PassCallers, ks \in PassKeyLists : get_lookup_table_accounts(c, ks) /\ UNCHANGED <<tx_vars, ctr_vars>>
    \/ \E c \in PassCallers : lk_init_ok(c) /\ UNCHANGED <<tx_vars, ctr_vars>>
    \/ \E c \in PassCallers : lk_init_err(c) /\ UNCHANGED <<tx_vars, ctr_vars>>
    \/ \E c \in PassCallers : lk_map_err(c) /\ UNCHANGED <<tx_vars, ctr_vars>>
    \/ \E c \in PassCallers : pass_return(c)

SpecPass == Init /\ [][NextPass]_vars

(* ====================== fetch_lookup_tables =========================== *)
(* src/src/lookup.rs.  The chain holds, for a key, no account or an        *)
(* account whose data is an uninitialized lookup table, a lookup table     *)
(* with its addresses, or something that is no lookup table at all.        *)
ParseAccountError == [kind |-> "ParseAccountError", msg |-> <<>>]
ParsePubkeyError == [kind |-> "ParsePubkeyError", msg |-> <<>>]

(* The base58 text of a pubkey, as the parsed table carries it.            *)
to_base58(p) == <<"base58", p>>
(* Pubkey::from_str                                                        *)
from_str(a) == IF a[1] = "base58" THEN Ok(a[2]) ELSE Err(ParsePubkeyError)

UninitializedData == [type |-> "Uninitialized", addresses |-> <<>>]
LookupTableData(addresses) == [type |-> "LookupTable", addresses |-> addresses]
InvalidData == [type |-> "Invalid", addresses |-> <<>>]

(* parse_address_lookup_table(account.data)                                *)
parse_address_lookup_table(data) ==
    IF data.type = "Invalid" THEN Err(ParseAccountError) ELSE Ok(data)

(* get_multiple_accts: one get_multiple_accounts call for all the keys.    *)
AccountsCall(keys) == <<"Accounts", keys>>
get_multiple_accts(lookup_tables, rpc) ==
    Outcome(IF rpc.ok
            THEN Ok([i \in 1..Len(lookup_tables) |-> rpc.accounts[lookup_tables[i]]])
            ELSE Err(SolanaRpcError(<<"failed to get lookup table accounts: ", "io">>)),
            <<AccountsCall(lookup_tables)>>)

(* The inner loop: every address text is converted, the first failure      *)
(* ends the function.                                                      *)
RECURSIVE convert_addresses(_, _)
convert_addresses(texts, addresses) ==
    IF texts = <<>> THEN Ok(addresses)
    ELSE LET a == from_str(Head(texts))
         IN IF a.ok THEN convert_addresses(Tail(texts), Append(addresses, a.val))
            ELSE a

MutKeepsEmptyTables(table) == FALSE
(* table.addresses.is_empty()                                              *)
addresses_is_empty(table) == table.addresses = <<>>

(* process_lookup_tables, from account i on, with the tables pushed so far *)
RECURSIVE process_from(_, _, _, _)
process_from(lookup_tables, accounts, i, lookup_tables_state) ==
    IF i > Len(accounts) THEN Ok(lookup_tables_state)
    ELSE IF ~accounts[i].some
         THEN process_from(lookup_tables, accounts, i + 1, lookup_tables_state)
    ELSE LET table_type == parse_address_lookup_table(accounts[i].val)
         IN IF ~table_type.ok THEN table_type
            ELSE IF table_type.val.type = "Uninitialized"
                 THEN process_from(lookup_tables, accounts, i + 1, lookup_tables_state)
            ELSE IF addresses_is_empty(table_type.val)
                 THEN process_from(lookup_tables, accounts, i + 1, lookup_tables_state)
            ELSE LET addresses == convert_addresses(table_type.val.addresses, <<>>)
                 IN IF ~addresses.ok THEN addresses
                    ELSE process_from(lookup_tables, accounts, i + 1,
                             Append(lookup_tables_state,
                                    Table(lookup_tables[i], addresses.val)))

process_lookup_tables(lookup_tables, accounts) ==
    process_from(lookup_tables, accounts, 1, <<>>)

fetch_lookup_tables(lookup_tables, rpc) ==
    IF lookup_tables = <<>> THEN Outcome(Ok(<<>>), <<>>)
    ELSE LET accounts == get_multiple_accts(lookup_tables, rpc)
         IN IF ~accounts.res.ok THEN accounts
            ELSE Outcome(process_lookup_tables(lookup_tables, accounts.res.val),
                         accounts.log)

call_fetch_lookup_tables(lookup_tables, rpc) ==
    /\ UNCHANGED builder_vars
    /\ Record("fetch_lookup_tables", <<lookup_tables, rpc>>,
              fetch_lookup_tables(lookup_tables, rpc))

(* The key lists asked for and what the chain may hold for each key.       *)
FetchKeys == {"A", "B"}
RECURSIVE SeqsUpTo(_, _)
SeqsUpTo(S, n) ==
    IF n = 0 THEN {<<>>}
    ELSE SeqsUpTo(S, n - 1) \cup
         {Append(s, x) : s \in {t \in SeqsUpTo(S, n - 1) : Len(t) = n - 1}, x \in S}
FetchKeyLists == SeqsUpTo(FetchKeys, MaxKeys)
ChainAccounts ==
    {None, Some(UninitializedData), Some(LookupTableData(<<>>)), Some(InvalidData),
     Some(LookupTableData(<<to_base58("x"), to_base58("y")>>))}
RpcClients == [ok : BOOLEAN, accounts : [FetchKeys -> ChainAccounts]]

NextFetch ==
    \E keys \in FetchKeyLists, rpc \in RpcClients : call_fetch_lookup_tables(keys, rpc)

SpecFetch == Init /\ [][NextFetch]_vars

(* Two callers resolve [B, A, C] at once, B not being on chain, and any    *)
(* underlying call may fail.                                               *)
PartialKeyLists == {<<"B", "A", "C">>}

NextPartial ==
    \/ \E c \in ErrCallers, ks \in PartialKeyLists : get_lookup_table_accounts(c, ks) /\ UNCHANGED <<tx_vars, ctr_vars>>
    \/ \E c \in ErrCallers : lk_next_key(c) /\ UNCHANGED <<tx_vars, ctr_vars>>
    \/ \E c \in ErrCallers : lk_init_ok(c) /\ UNCHANGED <<tx_vars, ctr_vars>>
    \/ \E c \in ErrCallers : lk_init_empty(c) /\ UNCHANGED <<tx_vars, ctr_vars>>
    \/ \E c \in ErrCallers : lk_init_err(c) /\ UNCHANGED <<tx_vars, ctr_vars>>
    \/ \E c \in ErrCallers : lk_map_err(c) /\ UNCHANGED <<tx_vars, ctr_vars>>
    \/ \E c \in ErrCallers : Return(c) /\ UNCHANGED <<tx_vars, ctr_vars>>

SpecPartial == Init /\ [][NextPartial]_vars

(* ====================== callers that wait ============================= *)
(* Concurrent callers of both decorators.  A call is begun only while the  *)
(* run's MaxCalls underlying calls cover it together with the calls in     *)
(* progress, so that no call is cut short by the bound.                    *)
LiveCallers == {"c1", "c2"}
LiveKeyLists == {<<"B">>, <<"A", "B">>}

(* The underlying calls a caller's lookup call may still make.             *)
Remaining(c) ==
    CASE pc[c] = "lk_loop" -> Len(pubkeys[c]) - idx[c] + 1
      [] pc[c] \in {"lk_fetch", "lk_wait", "lk_maperr"} -> Len(pubkeys[c]) - idx[c]
      [] OTHER -> 0
RECURSIVE SumRemaining(_)
SumRemaining(S) ==
    IF S = {} THEN 0
    ELSE LET c == CHOOSE x \in S : TRUE IN Remaining(c) + SumRemaining(S \ {c})
Covered(n) ==
    counters["Blockhash"] + counters["Lookup"] + SumRemaining(Callers) + n <= MaxCalls

live_blockhash(c) == Covered(1) /\ get_latest_blockhash(c)
live_lookup(c, ks) == Covered(Len(ks)) /\ get_lookup_table_accounts(c, ks)

(* The underlying provider answers a call it was handed.                   *)
bh_inner_returns(c) == (bh_init_ok(c) \/ bh_init_err(c)) /\ UNCHANGED <<tx_vars, ctr_vars>>
lk_inner_returns(c) ==
    (lk_init_ok(c) \/ lk_init_empty(c) \/ lk_init_err(c)) /\ UNCHANGED <<tx_vars, ctr_vars>>
(* The runtime polls a task that is ready to go on.                        *)
task_polled(c) ==
    (bh_map_err(c) \/ lk_map_err(c) \/ lk_next_key(c)) /\ UNCHANGED <<tx_vars, ctr_vars>>

NextLive ==
    \/ \E c \in LiveCallers : live_blockhash(c) /\ UNCHANGED <<tx_vars, ctr_vars>>
    \/ \E c \in LiveCallers, ks \in LiveKeyLists : live_lookup(c, ks) /\ UNCHANGED <<tx_vars, ctr_vars>>
    \/ \E c \in LiveCallers : bh_inner_returns(c)
    \/ \E c \in LiveCallers : lk_inner_returns(c)
    \/ \E c \in LiveCallers : task_polled(c)
    \/ \E c \in LiveCallers : Return(c) /\ UNCHANGED <<tx_vars, ctr_vars>>

(* Every underlying call eventually returns, and a task that can go on is  *)
(* eventually polled.                                                      *)
LiveFairness ==
    \A c \in LiveCallers :
        /\ WF_vars(bh_inner_returns(c))
        /\ WF_vars(lk_inner_returns(c))
        /\ WF_vars(task_polled(c))

SpecLive == Init /\ [][NextLive]_vars /\ LiveFairness

(* ============================ properties ============================== *)
(* The TTL windows, read off the clock and the insertion times.            *)
PosFresh(k) == lookup_cache[k].present /\ now < lookup_cache[k].at + PosTTL
NegFresh(k) == negative_cache[k].present /\ now < negative_cache[k].at + NegTTL
BhFresh == blockhash.present /\ now < blockhash.at + BhTTL

IsLookupCall(c) == pubkeys[c] # <<>>
KeysOf(tables) == [j \in 1..Len(tables) |-> tables[j][1]]
MissedKeys(c) == {h_missed[c][j][1] : j \in 1..Len(h_missed[c])}
NotMissed(c, k) == k \notin MissedKeys(c)

(* C1: while the positive-cache entry of a key is within its TTL, no       *)
(* underlying lookup call for that key has been made since the fetch that  *)
(* inserted it, and every resolution served from the cache in that time    *)
(* returned the table that fetch stored.                                   *)
C1_OneFetchWithinTTL ==
    \A k \in Keys :
        PosFresh(k) => /\ h_since[k] = 0
                       /\ h_lk_served[k] \subseteq {lookup_cache[k].value}

(* C1 witness: a key is served from the cache within its TTL although the  *)
(* chain holds another table for it by now.                                *)
C1_Witness ==
    \E k \in Keys : /\ PosFresh(k)
                    /\ h_lk_served[k] = {lookup_cache[k].value}
                    /\ Table(k, lookups[k]) # lookup_cache[k].value
                    /\ counters["Lookup"] >= 1

(* C2: for every key at most one caller evaluates the underlying fetch at  *)
(* any time, and every caller waiting on the key is coalesced onto that    *)
(* caller's fetch: concurrent misses on a key share one underlying call.   *)
C2_SingleFlight ==
    \A k \in Keys :
        /\ Cardinality({c \in Callers : pc[c] = "lk_fetch" /\ CurKey(c) = k}) <= 1
        /\ LkWaiters(k) # {} =>
              /\ lk_waiter[k] \in Callers
              /\ pc[lk_waiter[k]] = "lk_fetch"
              /\ CurKey(lk_waiter[k]) = k
        /\ (\E c \in Callers : pc[c] = "lk_fetch" /\ CurKey(c) = k) => lk_waiter[k] # NoCaller

(* C2 witness: three concurrent callers of one key that is not found have  *)
(* all been answered by a single underlying call.                          *)
C2_Witness ==
    /\ Cardinality({c \in Callers : pc[c] = "lk_maperr"
                                     /\ arc_err[c].kind = "LookupTableMiss"}) = 3
    /\ counters["Lookup"] = 1

(* C3: while the slot's value is within its TTL no underlying blockhash    *)
(* call is made and every call served from the slot returns that value; a  *)
(* call made after the TTL has passed, with no fetch in flight, makes one  *)
(* new underlying call, and a successful fetch returns and stores the      *)
(* value just fetched.                                                     *)
C3_Within == BhFresh => /\ h_bh_since = 0
                        /\ h_served \subseteq {blockhash.value}
C3_Step ==
    \A c \in Callers :
        /\ ( /\ pc[c] = "idle" /\ pc'[c] # "idle"
             /\ blockhash.present /\ now > blockhash.at + BhTTL
             /\ bh_waiter = NoCaller )
           => /\ pc'[c] = "bh_fetch"
              /\ counters'["Blockhash"] = counters["Blockhash"] + 1
        /\ (pc[c] = "bh_fetch" /\ pc'[c] = "done")
           => /\ ret'[c].ok /\ ret'[c].val = chain_hash
              /\ blockhash'.present /\ blockhash'.value = chain_hash
              /\ blockhash'.at = now
C3_BlockhashTTL == []C3_Within /\ [][C3_Step]_vars

(* C3 witness: a second value has been fetched after the first expired,    *)
(* and it differs from the first.                                          *)
C3_Witness ==
    /\ BhFresh
    /\ blockhash.prev >= 0
    /\ counters["Blockhash"] = 2
    /\ blockhash.value = 2
    /\ \E c \in Callers : pc[c] = "done" /\ ret[c].ok /\ ret[c].val = 2

(* C4: at most one caller evaluates the underlying blockhash fetch at any  *)
(* time, every waiting caller is coalesced onto it, no fetch is in flight  *)
(* while the slot's value is within its TTL, and two successive successful *)
(* fetches are at least one TTL apart.                                     *)
C4_OneFetchPerWindow ==
    /\ Cardinality({c \in Callers : pc[c] = "bh_fetch"}) <= 1
    /\ BhWaiters # {} => bh_waiter \in Callers /\ pc[bh_waiter] = "bh_fetch"
    /\ BhFresh => bh_waiter = NoCaller /\ BhWaiters = {}
    /\ (blockhash.present /\ blockhash.prev >= 0) =>
           blockhash.at - blockhash.prev >= BhTTL

(* C4 witness: two callers wait on the third's fetch over an expired slot. *)
C4_Witness ==
    /\ Cardinality(BhWaiters) = 2
    /\ bh_waiter \in Callers
    /\ blockhash.present
    /\ counters["Blockhash"] = 2

(* C5: while the negative-cache entry of a key is within its TTL, no       *)
(* underlying lookup call is made for that key.                            *)
C5_NoFetchWhileNegative ==
    [][\A k \in Keys : NegFresh(k) => h_since'[k] <= h_since[k]]_vars

(* C6: while the negative-cache entry of a key is within its TTL, no table *)
(* of that key is added to a result; and a resolution of a key whose       *)
(* negative entry has expired, that is not served otherwise, fetches.      *)
C6_AbsentWhileNegative ==
    [][\A c \in Callers :
          /\ Len(resolved'[c]) > Len(resolved[c]) =>
                ~NegFresh(resolved'[c][Len(resolved'[c])][1])
          /\ ( /\ pc[c] \in {"idle", "lk_loop"} /\ pc'[c] \notin {"idle", "lk_loop"}
               /\ idx'[c] \in 1..Len(pubkeys'[c])
               /\ LET k == pubkeys'[c][idx'[c]]
                  IN /\ negative_cache[k].present
                     /\ now >= negative_cache[k].at + NegTTL
                     /\ ~lookup_cache[k].present
                     /\ lk_waiter[k] = NoCaller )
             => pc'[c] = "lk_fetch"]_vars

(* C7: a lookup call that met no transport error returns Ok with exactly   *)
(* the tables of the requested keys that were not answered not-found, in   *)
(* request order; each not-found key was put in the negative cache; and    *)
(* for [A, B, C] with only B not found the result has 2 entries and, after *)
(* sync() with the entries unexpired, len() = 2, len_negative() = 1 and    *)
(* total() = 3.                                                            *)
C7_NotFoundAbsorbed ==
    \A c \in Callers :
        (pc[c] = "done" /\ IsLookupCall(c) /\ ~h_failed[c]) =>
            /\ ret[c].ok
            /\ ret[c].val = resolved[c]
            /\ KeysOf(resolved[c]) = SelectSeq(pubkeys[c], LAMBDA k : NotMissed(c, k))
            /\ \A j \in 1..Len(h_missed[c]) :
                  LET k == h_missed[c][j][1]
                      t == h_missed[c][j][2]
                  IN \/ negative_cache[k].present /\ negative_cache[k].at >= t
                     \/ now >= t + NegTTL
            /\ ( /\ pubkeys[c] = <<"A", "B", "C">>
                 /\ MissedKeys(c) = {"B"}
                 /\ h_synced
                 /\ lookup_cache["A"].present /\ lookup_cache["C"].present
                 /\ negative_cache["B"].present )
               => /\ Len(ret[c].val) = 2
                  /\ len = 2 /\ len_negative = 1 /\ total = 3

(* C7 witness: [A, B, C] returned A's and C's tables, B is in the negative *)
(* cache, and the counts were read after sync().                           *)
C7_Witness ==
    \E c \in Callers :
        /\ pc[c] = "done" /\ pubkeys[c] = <<"A", "B", "C">> /\ ret[c].ok
        /\ KeysOf(ret[c].val) = <<"A", "C">>
        /\ MissedKeys(c) = {"B"}
        /\ h_synced /\ negative_cache["B"].present
        /\ len = 2 /\ len_negative = 1 /\ total = 3

(* C8: a decorator call that met a transport error returns an error, never *)
(* a value; the error is the transport error or its MokaCacheError         *)
(* wrapping, and the transport error itself when the failed fetch was not  *)
(* shared with another caller.                                             *)
C8_TransportErrorNotAValue ==
    \A c \in Callers :
        (pc[c] = "done" /\ h_failed[c]) =>
            /\ ~ret[c].ok
            /\ ret[c].err \in {TransportErr, MokaCacheError(to_string(TransportErr))}
            /\ h_alone[c] => ret[c].err = TransportErr

(* C8 witness: a lookup call that had already resolved a key, and a        *)
(* blockhash call, both returned the transport error of an unshared fetch. *)
C8_Witness ==
    /\ \E c \in Callers : /\ pc[c] = "done" /\ h_failed[c] /\ h_alone[c]
                          /\ IsLookupCall(c) /\ Len(resolved[c]) = 1
                          /\ ret[c].err = TransportErr
    /\ \E c \in Callers : /\ pc[c] = "done" /\ h_failed[c] /\ h_alone[c]
                          /\ ~IsLookupCall(c)
                          /\ ret[c].err = TransportErr

(* C9: every caller of a decorator call that met a transport error, shared *)
(* or not, receives an error of kind SolanaRpcError.                       *)
C9_ErrorKindKept ==
    \A c \in Callers :
        (pc[c] = "done" /\ h_failed[c]) => ret[c].err.kind = "SolanaRpcError"

(* C10: a failed underlying blockhash fetch leaves the slot as it was,     *)
(* without a usable value; a call made while the slot has no unexpired     *)
(* value is not answered from the slot: it fetches, or joins the fetch in  *)
(* flight; and no idle caller holds an error of an earlier call.           *)
C10_Step ==
    \A c \in Callers :
        /\ (pc[c] = "bh_fetch" /\ pc'[c] = "bh_maperr")
           => /\ blockhash' = blockhash
              /\ ~BhFresh'
              /\ bh_waiter' = NoCaller
        /\ (pc[c] = "idle" /\ pc'[c] # "idle" /\ ~BhFresh)
           => /\ pc'[c] \in {"bh_fetch", "bh_wait"}
              /\ bh_waiter = NoCaller =>
                    /\ pc'[c] = "bh_fetch"
                    /\ counters'["Blockhash"] = counters["Blockhash"] + 1
C10_NoNegativeBlockhash ==
    /\ [](\A c \in Callers : pc[c] = "idle" => arc_err[c] = NoErr /\ ~ret[c].ok)
    /\ [][C10_Step]_vars

(* C10 witness: one caller's unshared fetch failed, and a later unshared   *)
(* fetch of another caller succeeded and filled the slot.                  *)
C10_Witness ==
    /\ now = 0 /\ BhFresh /\ counters["Blockhash"] = 2
    /\ \E c, d \in Callers :
          /\ pc[c] = "done" /\ h_failed[c] /\ h_alone[c]
          /\ pc[d] = "done" /\ ret[d].ok /\ h_alone[d]

(* ----------------------- TransactionBuilder --------------------------- *)
(* The positions of rpc_log that call the given provider method.           *)
CallsOf(method) == {i \in 1..Len(rpc_log) : rpc_log[i][1] = method}
OpIs(op) == tx_ret.op = op
SelfIxs == tx_ret.self.instructions

(* C11: send compiles the message, then simulates once with sig_verify =   *)
(* true, then sends the same transaction once; when compilation or the     *)
(* simulation fails the provider's send is never called and the error is   *)
(* what send returns.                                                      *)
C11_SendProtocol ==
    OpIs("send") =>
        LET env == tx_ret.args[1]
            sims == CallsOf("Simulate")
            sends == CallsOf("Send")
            n == Len(rpc_log)
        IN  /\ Cardinality(sims) <= 1 /\ Cardinality(sends) <= 1
            /\ \A i \in sims : /\ rpc_log[i][2] = TRUE
                               /\ \E j \in CallsOf("Blockhash") : j < i
            /\ \A i \in sends : /\ i = n /\ (n - 1) \in sims
                                /\ rpc_log[i][2] = rpc_log[n - 1][3]
            /\ tx_ret.res.ok => sends # {}
            /\ sims = {} =>
                  /\ sends = {} /\ ~tx_ret.res.ok
                  /\ tx_ret.res.err.kind \in {"SolanaRpcError", "MessageError",
                                              "SignerError"}
            /\ (sims # {} /\ ~env.simulate.ok) =>
                  /\ sends = {} /\ ~tx_ret.res.ok
                  /\ tx_ret.res.err.kind = env.simulate.err.kind
                  /\ tx_ret.res.err.msg = env.simulate.err.msg
            /\ (sims # {} /\ env.simulate.ok) => sends # {}

(* C11 witness: a send with lookup keys that failed in the simulation,     *)
(* after resolving the keys and fetching the blockhash.                    *)
C11_Witness ==
    /\ OpIs("send") /\ Len(rpc_log) = 3
    /\ rpc_log[1][1] = "Lookup" /\ rpc_log[2][1] = "Blockhash"
    /\ rpc_log[3][1] = "Simulate"
    /\ tx_ret.res.err.kind = "SolanaSimulateFailure"

(* C12: create_message compiles with the explicit tables and no lookup     *)
(* call when address_lookup_tables is set, keys or no keys; else with the  *)
(* tables one lookup call for the keys returned; else a legacy message     *)
(* and no lookup call.                                                     *)
C12_MessageShape ==
    OpIs("create_message") =>
        LET env == tx_ret.args[1]
            b == tx_ret.self
            lk == CallsOf("Lookup")
        IN  IF b.address_lookup_tables.some
            THEN /\ lk = {}
                 /\ tx_ret.res.ok =>
                       /\ tx_ret.res.val.version = "V0"
                       /\ tx_ret.res.val.address_table_lookups
                             = b.address_lookup_tables.val
            ELSE IF b.lookup_tables_keys.some
            THEN /\ lk = {1}
                 /\ rpc_log[1][2] = b.lookup_tables_keys.val
                 /\ tx_ret.res.ok =>
                       /\ tx_ret.res.val.version = "V0"
                       /\ tx_ret.res.val.address_table_lookups = env.lookup.val
            ELSE /\ lk = {}
                 /\ tx_ret.res.ok => tx_ret.res.val.version = "Legacy"

(* C12 witness: a builder with both keys and explicit tables compiled.     *)
C12_Witness ==
    /\ OpIs("create_message") /\ tx_ret.res.ok
    /\ tx_ret.self.address_lookup_tables.some /\ tx_ret.self.lookup_tables_keys.some
    /\ tx_ret.res.val.version = "V0"

(* C13: prepend_compute_budget_instructions(units, fee) fails with         *)
(* ComputeBudgetAlreadyPresent when any instruction of the sequence is a   *)
(* compute-budget instruction, and leaves the sequence alone; otherwise    *)
(* the sequence becomes [limit(units), price(fee)] followed by the         *)
(* original one, two entries longer.                                       *)
C13_Prepend ==
    OpIs("prepend") =>
        LET units == tx_ret.args[1]
            fee == tx_ret.args[2]
        IN  IF \E i \in 1..Len(SelfIxs) : SelfIxs[i].program_id = ComputeBudgetID
            THEN /\ ~tx_ret.res.ok
                 /\ tx_ret.res.err.kind = "ComputeBudgetAlreadyPresent"
                 /\ instructions = SelfIxs
            ELSE /\ tx_ret.res.ok
                 /\ Len(instructions) = Len(SelfIxs) + 2
                 /\ instructions[1] = set_compute_unit_limit(units)
                 /\ instructions[2] = set_compute_unit_price(fee)
                 /\ \A i \in 1..Len(SelfIxs) : instructions[i + 2] = SelfIxs[i]

(* C13 witness: the second prepend on three transfers and two memos that   *)
(* already carry the directives at [0] and [1]: 7 entries, and it fails.   *)
C13_Witness ==
    /\ OpIs("prepend") /\ ~tx_ret.res.ok
    /\ instructions = <<set_compute_unit_limit(U(0, 0, 1000000)),
                        set_compute_unit_price(U(0, 0, 200000))>>
                      \o random_instructions
                      \o <<build_memo("soly"), build_memo("soly")>>

(* C14: with_priority_fees on a builder that carries a compute-budget      *)
(* instruction returns Ok with the same instructions and lookup lists and  *)
(* makes no provider call.                                                 *)
C14_PriorityFeesNoOp ==
    (OpIs("with_priority_fees")
     /\ \E i \in 1..Len(SelfIxs) : SelfIxs[i].program_id = ComputeBudgetID)
    => /\ tx_ret.res.ok
       /\ tx_ret.res.val = SelfIxs
       /\ builder = tx_ret.self
       /\ rpc_log = <<>>

(* C14 witness: with_priority_fees applied to the builder an earlier       *)
(* with_priority_fees returned.                                            *)
C14_Witness ==
    /\ OpIs("with_priority_fees") /\ tx_ret.res.ok
    /\ Len(SelfIxs) = 5
    /\ SelfIxs[1] = set_compute_unit_limit(U(0, 0, 110))
    /\ SelfIxs[2] = set_compute_unit_price(U(0, 0, 5))
    /\ instructions = SelfIxs

(* The fee the claims expect, stated on the samples themselves: the        *)
(* percentile (absent: 75, above 100: 100), the clamped index, the sample  *)
(* of that rank, capped by max_prioritization_fee.                         *)
PctOf(p) == IF ~p.some THEN 75 ELSE IF p.val > 100 THEN 100 ELSE p.val
ClampedIndex(n, p) ==
    LET raw == (n * PctOf(p) - 1) \div 100
    IN  IF raw < 0 THEN 0 ELSE IF raw > n - 1 THEN n - 1 ELSE raw
RatesOf(env) == [j \in 1..Len(env.fees.val) |-> env.fees.val[j].prioritization_fee]
HasRank(v, rates, i) ==
    /\ Cardinality({j \in 1..Len(rates) : Lt(rates[j], v)}) <= i
    /\ Cardinality({j \in 1..Len(rates) : rates[j] = v \/ Lt(rates[j], v)}) >= i + 1
SelectedFee(rates, p) ==
    CHOOSE v \in {rates[j] : j \in 1..Len(rates)} :
        HasRank(v, rates, ClampedIndex(Len(rates), p))
ComputedFee(env, max_fee, p) ==
    LET sel == SelectedFee(RatesOf(env), p)
    IN  IF Lt(max_fee, sel) THEN max_fee ELSE sel
ExceedsCeiling(f) == Lt(MAX_ACCEPTABLE_PRIORITY_FEE_MICROLAMPORTS, f)

(* with_priority_fees was called on a non-empty builder without a          *)
(* compute-budget instruction and every provider call it made succeeded.   *)
C15_Case ==
    /\ OpIs("with_priority_fees")
    /\ SelfIxs # <<>>
    /\ \A i \in 1..Len(SelfIxs) : SelfIxs[i].program_id # ComputeBudgetID
    /\ tx_ret.args[1].fees.ok /\ tx_ret.args[1].blockhash.ok
    /\ tx_ret.args[1].simulate.ok
    /\ (tx_ret.self.lookup_tables_keys.some /\ ~tx_ret.self.address_lookup_tables.some)
          => tx_ret.args[1].lookup.ok

(* One fee fetch, one simulation of the unsigned transaction with          *)
(* sig_verify = false, no send, and the builder returned carries           *)
(* [limit(units), price(priority_fee)] of calc_fee before its own          *)
(* instructions.                                                           *)
C15_Effect ==
    LET fee == calc_fee(tx_ret.self, tx_ret.args[1], tx_ret.args[2], tx_ret.args[3]).res
    IN  /\ Cardinality(CallsOf("Fees")) = 1
        /\ Cardinality(CallsOf("Simulate")) = 1
        /\ \A i \in CallsOf("Simulate") : /\ rpc_log[i][2] = FALSE
                                          /\ rpc_log[i][3].signatures = "default"
        /\ CallsOf("Send") = {}
        /\ tx_ret.res.ok
        /\ fee.ok
        /\ instructions = <<set_compute_unit_limit(fee.val.units),
                            set_compute_unit_price(fee.val.priority_fee)>> \o SelfIxs
        /\ tx_ret.res.val = instructions

(* The fee can be computed: there are samples, the message compiles, the   *)
(* simulation reports units that fit u32, the fee is within the ceiling.   *)
C15_Computable ==
    LET env == tx_ret.args[1]
    IN  /\ env.fees.val # <<>>
        /\ (tx_ret.self.lookup_tables_keys.some \/ tx_ret.self.address_lookup_tables.some)
              => env.compile_ok
        /\ env.simulate.val.units_consumed.some
        /\ ~Lt(U32_MAX, env.simulate.val.units_consumed.val)
        /\ ~ExceedsCeiling(ComputedFee(env, tx_ret.args[2], tx_ret.args[3]))

(* C15 as claimed: with_priority_fees on a non-empty builder without a     *)
(* compute-budget instruction, every provider call succeeding, fetches     *)
(* fees once, simulates once unsigned with sig_verify = false, never       *)
(* sends, and returns the builder with calc_fee's directive in front.      *)
C15_AlwaysPrepends == C15_Case => C15_Effect

(* C15 amended: the same, when moreover the fee can be computed (samples   *)
(* not empty, message compiles, units reported and within u32, fee within  *)
(* the ceiling).                                                           *)
C15_PrependsWhenComputable == (C15_Case /\ C15_Computable) => C15_Effect

(* C15 witness: with_priority_fees resolved the lookup keys, fetched the   *)
(* fees, simulated and put limit(110), price(5) before three transfers.    *)
C15_Witness ==
    /\ C15_Case /\ C15_Computable
    /\ Len(rpc_log) = 4
    /\ instructions = <<set_compute_unit_limit(U(0, 0, 110)),
                        set_compute_unit_price(U(0, 0, 5))>> \o random_instructions

(* C16: the instruction sequence of a builder holds at most one limit and  *)
(* one price instruction of the compute-budget program, and the            *)
(* compute-budget instructions it holds are its first entries.             *)
C16_DirectiveInvariant ==
    LET cb == {i \in 1..Len(instructions) :
                  instructions[i].program_id = ComputeBudgetID}
    IN  /\ Cardinality({i \in cb : instructions[i].data[1] = "SetComputeUnitLimit"}) <= 1
        /\ Cardinality({i \in cb : instructions[i].data[1] = "SetComputeUnitPrice"}) <= 1
        /\ cb = 1..Cardinality(cb)

(* calc_fee got samples from the provider and a simulation result.         *)
C17_Case ==
    /\ OpIs("calc_fee") /\ SelfIxs # <<>>
    /\ tx_ret.args[1].fees.ok /\ tx_ret.args[1].fees.val # <<>>

(* C17: on n >= 1 samples the fee calc_fee computes, returned in Ok or     *)
(* carried by PriorityFeeTooHigh, is min(sorted[i], max_fee) for i =       *)
(* floor((n*p - 1)/100) clamped to [0, n-1], p = 75 when absent and 100    *)
(* when above 100; the code's index is that i and is within bounds.        *)
C17_Percentile ==
    C17_Case =>
        LET env == tx_ret.args[1]
            n == Len(env.fees.val)
            expected == ComputedFee(env, tx_ret.args[2], tx_ret.args[3])
        IN  /\ tx_ret.res.err.kind # "panic"
            /\ tx_ret.res.ok => tx_ret.res.val.priority_fee = expected
            /\ tx_ret.res.err.kind = "PriorityFeeTooHigh"
                  => tx_ret.res.err.msg[1] = expected
            /\ ExceedsCeiling(expected) <=> tx_ret.res.err.kind = "PriorityFeeTooHigh"

(* C17 witness: four samples, no percentile given: index 2 of the sorted   *)
(* samples, 200000, under a cap of u64::MAX.                               *)
C17_Witness ==
    /\ C17_Case /\ tx_ret.res.ok
    /\ RatesOf(tx_ret.args[1])
          = <<U(0, 0, 200000), U(0, 0, 5), U(0, 90, 1), U(0, 0, 5)>>
    /\ ~tx_ret.args[3].some /\ tx_ret.args[2] = U64_MAX
    /\ tx_ret.res.val.priority_fee = U(0, 0, 200000)

(* C18: calc_fee and with_priority_fees on a builder without a             *)
(* compute-budget instruction fail when the provider returns no fee        *)
(* samples: an error, not a zero fee, with no index into the empty list    *)
(* and no simulation.                                                      *)
C18_EmptyFeesFail ==
    (/\ OpIs("calc_fee") \/ OpIs("with_priority_fees")
     /\ \A i \in 1..Len(SelfIxs) : SelfIxs[i].program_id # ComputeBudgetID
     /\ tx_ret.args[1].fees.ok /\ tx_ret.args[1].fees.val = <<>>)
    => /\ ~tx_ret.res.ok
       /\ tx_ret.res.err.kind # "panic"
       /\ CallsOf("Simulate") = {}
       /\ instructions = SelfIxs
       /\ SelfIxs # <<>> =>
             /\ tx_ret.res.err = SolanaRpcError(<<"No prioritization fees available">>)
             /\ rpc_log = <<FeesCall>>

(* C18 witness: with_priority_fees on three transfers met an empty list.   *)
C18_Witness ==
    /\ OpIs("with_priority_fees") /\ SelfIxs = random_instructions
    /\ tx_ret.args[1].fees.ok /\ tx_ret.args[1].fees.val = <<>>
    /\ tx_ret.res.err.kind = "SolanaRpcError"

(* C19: a fee calc_fee returns is at most min(max_prioritization_fee,      *)
(* ceiling); when min(selected sample, max_prioritization_fee) exceeds the *)
(* ceiling calc_fee fails with PriorityFeeTooHigh(that value, ceiling).    *)
C19_FeeCeiling ==
    C17_Case =>
        LET computed == ComputedFee(tx_ret.args[1], tx_ret.args[2], tx_ret.args[3])
        IN  /\ tx_ret.res.ok =>
                  /\ ~Lt(MAX_ACCEPTABLE_PRIORITY_FEE_MICROLAMPORTS,
                         tx_ret.res.val.priority_fee)
                  /\ ~Lt(tx_ret.args[2], tx_ret.res.val.priority_fee)
            /\ ExceedsCeiling(computed) =>
                  /\ ~tx_ret.res.ok
                  /\ tx_ret.res.err.kind = "PriorityFeeTooHigh"
                  /\ tx_ret.res.err.msg
                        = <<computed, MAX_ACCEPTABLE_PRIORITY_FEE_MICROLAMPORTS>>

(* C19 witness: the selected sample is one above the ceiling and the cap   *)
(* is u64::MAX.                                                            *)
C19_Witness ==
    /\ C17_Case /\ tx_ret.args[2] = U64_MAX
    /\ tx_ret.res.err.kind = "PriorityFeeTooHigh"
    /\ tx_ret.res.err.msg[1] = U(0, 90, 1)

(* calc_fee got a simulation result reporting c <= u32::MAX units and a    *)
(* fee within the ceiling.                                                 *)
C20_Case ==
    /\ C17_Case
    /\ tx_ret.args[1].simulate.val.units_consumed.some
    /\ ~Lt(U32_MAX, tx_ret.args[1].simulate.val.units_consumed.val)
    /\ ~ExceedsCeiling(ComputedFee(tx_ret.args[1], tx_ret.args[2], tx_ret.args[3]))

(* C20: for c consumed units, c <= u32::MAX, calc_fee returns units =      *)
(* min(c + floor(c/10), 1_400_000), the sum taken without wrap-around;     *)
(* the limit is at most 1_400_000 and at least min(c, 1_400_000).          *)
C20_UnitLimit ==
    C20_Case =>
        LET c == tx_ret.args[1].simulate.val.units_consumed.val
            sum == Add(c, Div10(c))
            cap == SOLANA_MAX_COMPUTE_UNITS
        IN  /\ tx_ret.res.ok
            /\ tx_ret.res.val.units = IF Lt(cap, sum) THEN cap ELSE sum
            /\ ~Lt(cap, tx_ret.res.val.units)
            /\ ~Lt(tx_ret.res.val.units, IF Lt(cap, c) THEN cap ELSE c)

(* C20 witness: 3_904_515_724 units, whose buffered sum is 2^32.           *)
C20_Witness ==
    /\ C20_Case /\ tx_ret.res.ok
    /\ tx_ret.args[1].simulate.val.units_consumed.val = U(0, 3, 904515724)
    /\ Add(U(0, 3, 904515724), Div10(U(0, 3, 904515724))) = U(0, 4, 294967296)
    /\ tx_ret.res.val.units = SOLANA_MAX_COMPUTE_UNITS

(* calc_fee simulated the transaction and the result has no unit count, or *)
(* one that does not fit in u32.                                           *)
C21_NoUnits == C17_Case /\ ~tx_ret.args[1].simulate.val.units_consumed.some
C21_TooWide ==
    /\ C17_Case /\ tx_ret.args[1].simulate.val.units_consumed.some
    /\ Lt(U32_MAX, tx_ret.args[1].simulate.val.units_consumed.val)

(* C21 as stated: without a unit count calc_fee fails with                 *)
(* InvalidComputeUnits, with a count above u32::MAX it fails with          *)
(* NumConversionError, and in neither case returns a CalcFeeResult.        *)
C21_AlwaysUnitError ==
    /\ C21_NoUnits => ~tx_ret.res.ok /\ tx_ret.res.err.kind = "InvalidComputeUnits"
    /\ C21_TooWide => ~tx_ret.res.ok /\ tx_ret.res.err.kind = "NumConversionError"

(* C21: calc_fee never defaults or truncates the unit count: without a     *)
(* unit count, or with one above u32::MAX, it returns no CalcFeeResult;    *)
(* the error is PriorityFeeTooHigh when the computed fee exceeds the       *)
(* ceiling (checked first), otherwise InvalidComputeUnits for a missing    *)
(* count and NumConversionError for a count that does not fit.             *)
C21_UnitsNeverDefaulted ==
    LET high == ExceedsCeiling(ComputedFee(tx_ret.args[1], tx_ret.args[2],
                                           tx_ret.args[3]))
    IN  /\ C21_NoUnits =>
              /\ ~tx_ret.res.ok
              /\ tx_ret.res.err.kind
                    = IF high THEN "PriorityFeeTooHigh" ELSE "InvalidComputeUnits"
        /\ C21_TooWide =>
              /\ ~tx_ret.res.ok
              /\ tx_ret.res.err.kind
                    = IF high THEN "PriorityFeeTooHigh" ELSE "NumConversionError"

(* C21 witness: 2^32 units under a fee within the ceiling.                 *)
C21_Witness ==
    /\ C21_TooWide
    /\ tx_ret.args[1].simulate.val.units_consumed.val = U(0, 4, 294967296)
    /\ tx_ret.res.err.kind = "NumConversionError"
    /\ Len(rpc_log) > 0 /\ rpc_log[Len(rpc_log)][1] = "Simulate"

(* The error kind a failed provider call reaches the caller with.          *)
TransportKind == TransportErr.kind

(* C22: calc_fee reports an empty instruction sequence, an empty fee       *)
(* sample list and a simulation without a unit count each as an error of   *)
(* its own named kind, and none of the three kinds is the kind of a        *)
(* transport failure.                                                      *)
C22_NoDataKinds ==
    OpIs("calc_fee") =>
        LET env == tx_ret.args[1]
            kind == tx_ret.res.err.kind
        IN  /\ SelfIxs = <<>> => ~tx_ret.res.ok /\ kind = "NoInstructions"
            /\ (SelfIxs # <<>> /\ env.fees.ok /\ env.fees.val = <<>>) =>
                  /\ ~tx_ret.res.ok
                  /\ kind \notin {TransportKind, "NoInstructions", "InvalidComputeUnits"}
            /\ (/\ C17_Case /\ CallsOf("Simulate") # {} /\ env.simulate.ok
                /\ ~env.simulate.val.units_consumed.some) =>
                  ~tx_ret.res.ok /\ kind = "InvalidComputeUnits"

(* A base provider's simulate_transaction got a response from the client   *)
(* whose simulation result carries an error.                               *)
C23_Case ==
    /\ OpIs("native_simulate") \/ OpIs("trace_simulate")
    /\ tx_ret.args[3].ok /\ tx_ret.args[3].val.err.some

(* C23: when the transport call succeeds and the simulation result carries *)
(* an error, the provider's simulate_transaction returns that result, with *)
(* its failure signal, and not an error.                                   *)
C23_FailureInResult ==
    C23_Case => tx_ret.res.ok /\ tx_ret.res.val = tx_ret.args[3].val

(* ----------------------- CounterRpcProvider --------------------------- *)
(* The callers whose call of the operation is pending in the provider      *)
(* below the counter: handed on by the counter itself, or by the init      *)
(* future of a cache placed above it.                                      *)
Forwarded(method) ==
    {c \in Callers : \/ pc[c] = "ctr_inner" /\ ctr_call[c] = method
                     \/ method = "Blockhash" /\ pc[c] = "bh_fetch"
                     \/ method = "Lookup" /\ pc[c] = "lk_fetch"}
NewlyForwarded(method) == Forwarded(method)' \ Forwarded(method)

(* C24: in every step each counter grows by the number of calls of its     *)
(* operation the step hands to the inner provider, which is at most one    *)
(* call over all operations: a call reaching the counter adds exactly 1 to *)
(* its own counter, leaves the other four alone and forwards one call;     *)
(* inner's answer, Ok or Err, changes no counter; a blockhash call the     *)
(* cache above the counter absorbs changes no counter.                     *)
C24_CountsForwardedCalls ==
    [][/\ \A m \in RpcMethod :
             counters'[m] = counters[m] + Cardinality(NewlyForwarded(m))
       /\ Cardinality(UNION {NewlyForwarded(m) : m \in RpcMethod}) <= 1
       /\ \A c \in Callers :
             /\ (pc[c] = "idle" /\ pc'[c] = "ctr_inner") =>
                   \A m \in RpcMethod :
                      IF m = ctr_call'[c]
                      THEN counters'[m] = counters[m] + 1 /\ NewlyForwarded(m) = {c}
                      ELSE counters'[m] = counters[m] /\ NewlyForwarded(m) = {}
             /\ (pc[c] = "ctr_inner" /\ pc'[c] = "done") =>
                   counters' = counters /\ ret'[c] \in InnerAnswers
             /\ (pc[c] = "idle" /\ pc'[c] \in {"done", "bh_wait"}) =>
                   counters' = counters]_vars

(* C24 witness: a send that failed in the inner provider is counted once,  *)
(* and of two blockhash calls through the cache one was counted and the    *)
(* other, served from the slot, was not.                                   *)
C24_Witness ==
    /\ pc["c1"] = "done" /\ ~ret["c1"].ok /\ get_counter("Send") = 1
    /\ pc["c2"] = "done" /\ ret["c2"].ok /\ blockhash.present
    /\ h_bh_since = 0 /\ h_served # {}
    /\ get_counter("Blockhash") = 1

(* C25: the counter of an operation equals the number of calls of it made  *)
(* since it was last zero, however the calls of concurrent callers         *)
(* interleave (no lost update), and a step that is not part of a reset     *)
(* lowers no counter.                                                      *)
C25_AtomicIncrements ==
    /\ [](\A m \in RpcMethod : get_counter(m) = h_direct[m])
    /\ [][reset_left' = reset_left =>
             \A m \in RpcMethod : counters'[m] >= counters[m]]_vars

(* C25 witness: two callers have a call of the same operation in flight    *)
(* at once and its counter reads 2.                                        *)
C25_Witness ==
    /\ pc["c1"] = "ctr_inner" /\ pc["c2"] = "ctr_inner"
    /\ ctr_call["c1"] = "Simulate" /\ ctr_call["c2"] = "Simulate"
    /\ reset_left = {} /\ get_counter("Simulate") = 2

(* C26: reset_counters zeroes all five counters together: once it has      *)
(* returned, with no provider call since it began, every counter reads 0;  *)
(* and while it runs there is no state in which some counters are reset    *)
(* and another still holds its value from before the reset.                *)
C26_ResetTogether ==
    /\ (reset_left = {} /\ h_quiet) => \A m \in RpcMethod : get_counter(m) = 0
    /\ (reset_left # RpcMethod /\ h_quiet) => \A m \in reset_left : get_counter(m) = 0

(* ----------------------- SimpleCacheProvider -------------------------- *)
(* Caller c begins an operation of the composite in this step.             *)
SimpleBegins(c) == pc[c] = "idle" /\ pc'[c] # "idle"
OnlyCounterMoves(method) ==
    \A m \in RpcMethod \ {method} : counters'[m] = counters[m]

(* C27: an operation called on the composite reaches exactly one           *)
(* component: fees, simulate and send enter inner and touch neither cache  *)
(* decorator; get_lookup_table_accounts enters the lookup cache decorator  *)
(* and touches neither the blockhash decorator nor inner directly;         *)
(* get_latest_blockhash enters the blockhash decorator and touches neither *)
(* the lookup decorator nor inner directly; nothing else changes.          *)
C27_Dispatch ==
    [][\A c \in Callers : SimpleBegins(c) =>
          /\ h_op'[c] \in {"Fees", "Simulate", "Send"} =>
                /\ pc'[c] = "ctr_inner" /\ ctr_call'[c] = h_op'[c]
                /\ UNCHANGED <<now, bh_vars, lk_vars, tx_vars>>
                /\ OnlyCounterMoves(h_op'[c])
          /\ h_op'[c] = "Lookup" =>
                /\ pc'[c] \in {"done", "lk_loop", "lk_wait", "lk_fetch"}
                /\ pubkeys'[c] # <<>>
                /\ UNCHANGED <<now, bh_vars, ctr_call, tx_vars>>
                /\ OnlyCounterMoves("Lookup")
          /\ h_op'[c] = "Blockhash" =>
                /\ pc'[c] \in {"done", "bh_wait", "bh_fetch"}
                /\ UNCHANGED <<now, lk_vars, ctr_call, tx_vars>>
                /\ OnlyCounterMoves("Blockhash")]_vars

(* C27 witness: one caller is inside the blockhash decorator's fetch while *)
(* the other has a simulate call pending in inner, and a table is cached.  *)
C27_Witness ==
    /\ h_op["c1"] = "Blockhash" /\ pc["c1"] = "bh_fetch"
    /\ h_op["c2"] = "Simulate" /\ pc["c2"] = "ctr_inner"
    /\ lookup_cache["A"].present /\ get_counter("Lookup") >= 1

(* ----------------------- compiling through the stack ------------------ *)
(* Caller c's create_message starts, or hands over its message, in this    *)
(* step.                                                                   *)
CompileBegins(c, provider) == pc[c] = "idle" /\ h_op'[c] = provider /\ pc'[c] # "idle"
CompileSucceeds(c) == h_op[c] \in Providers /\ h_op'[c] = "none" /\ tx_ret'.res.ok

C28_Step ==
    \A c \in CompileCallers :
        /\ CompileBegins(c, "uncached") =>
              counters'["Blockhash"] = counters["Blockhash"] + 1
        /\ CompileBegins(c, "cached") =>
              /\ BhFresh => counters' = counters /\ ret'[c] = Ok(blockhash.value)
              /\ ~BhFresh => counters'["Blockhash"] = counters["Blockhash"] + 1
        /\ CompileSucceeds(c) =>
              /\ ret[c].ok /\ tx_ret'.res.val.recent_blockhash = ret[c].val
              /\ Cardinality({i \in 1..Len(rpc_log') : rpc_log'[i][1] = "Blockhash"}) = 1
              /\ counters' = counters

(* C28: the assembler keeps no blockhash: a message that compiles carries  *)
(* the blockhash the provider returned to that very call, which is the one *)
(* provider call the compilation makes; against the uncached provider      *)
(* every compilation costs a fetch of its own, so k compiled messages mean *)
(* at least k fetches; through BlockHashCacheProvider a compilation within *)
(* the TTL of the slot costs none, and two successive fetches that filled  *)
(* the slot are at least one TTL apart.                                    *)
C28_NoBlockhashInAssembler ==
    /\ [][C28_Step]_vars
    /\ [](/\ h_compiled["uncached"] <= h_direct["Blockhash"]
          /\ get_counter("Blockhash") >= h_direct["Blockhash"]
          /\ (blockhash.present /\ blockhash.prev >= 0) =>
                 blockhash.at - blockhash.prev >= BhTTL)

(* C28 witness: two messages compiled through the cache within one TTL     *)
(* window cost one fetch, and after the chain moved on a message compiled  *)
(* against the uncached provider cost a second fetch and carries the new   *)
(* hash.                                                                   *)
C28_Witness ==
    /\ h_compiled["cached"] = 2 /\ h_compiled["uncached"] = 1
    /\ h_direct["Blockhash"] = 1 /\ get_counter("Blockhash") = 2
    /\ blockhash.present /\ blockhash.prev = -1 /\ blockhash.value = 1
    /\ tx_ret.op = "create_message" /\ tx_ret.res.ok
    /\ tx_ret.args[1] = "uncached" /\ tx_ret.res.val.recent_blockhash = 2

(* ----------------------- the builder's lists -------------------------- *)
IsPrefix(s, t) == Len(s) <= Len(t) /\ \A i \in 1..Len(s) : t[i] = s[i]
Added == [i \in 1..(Len(instructions) - Len(SelfIxs)) |-> instructions[Len(SelfIxs) + i]]

(* C29: push, with_memo, append and extend leave the instructions they met *)
(* in place and put theirs behind them in the order given; with_lookup_keys *)
(* and with_address_tables leave the sequence as it is; so after each of   *)
(* these operations the sequence before it is a prefix of the sequence     *)
(* after it.                                                               *)
C29_OrderPreserved ==
    /\ (\E op \in {"push", "with_memo", "append", "extend", "with_lookup_keys",
                   "with_address_tables"} : OpIs(op))
          => IsPrefix(SelfIxs, instructions)
    /\ OpIs("push") => Added = <<tx_ret.args[1]>>
    /\ OpIs("with_memo") =>
          /\ Len(Added) = 1 /\ Added[1].program_id = MemoID
          /\ Added[1].data[2] = tx_ret.args[1]
    /\ OpIs("append") \/ OpIs("extend") => Added = tx_ret.args[1]
    /\ OpIs("with_lookup_keys") \/ OpIs("with_address_tables") => Added = <<>>

(* C29 witness: extend put two transfers, in their order, behind three     *)
(* transfers and a memo.                                                   *)
C29_Witness ==
    /\ OpIs("extend")
    /\ SelfIxs = Append(random_instructions, build_memo("soly"))
    /\ instructions = random_instructions
                        \o <<build_memo("soly"), transfer(6), transfer(7)>>

(* The list an Option<Vec<_>> field stands for.                            *)
Stored(field) == IF field.some THEN field.val ELSE <<>>

(* C30: with_lookup_keys leaves the key list it met in place and puts its  *)
(* keys behind it, duplicates included, and leaves the table list as it    *)
(* was; with_address_tables does the same to the table list and leaves the *)
(* key list as it was; so the stored lists are the arguments of all calls  *)
(* joined in call order.                                                   *)
C30_ListsExtended ==
    /\ OpIs("with_lookup_keys") =>
          /\ lookup_tables_keys.some
          /\ lookup_tables_keys.val
                = Stored(tx_ret.self.lookup_tables_keys) \o tx_ret.args[1]
          /\ address_lookup_tables = tx_ret.self.address_lookup_tables
    /\ OpIs("with_address_tables") =>
          /\ address_lookup_tables.some
          /\ address_lookup_tables.val
                = Stored(tx_ret.self.address_lookup_tables) \o tx_ret.args[1]
          /\ lookup_tables_keys = tx_ret.self.lookup_tables_keys

(* C30 witness: keys B, then A, a table twice, then key A again.           *)
C30_Witness ==
    /\ OpIs("with_lookup_keys") /\ tx_ret.args[1] = <<"A">>
    /\ MaxKeys >= 3 => lookup_tables_keys = Some(<<"B", "A", "A">>)
    /\ MaxKeys < 3 => lookup_tables_keys = Some(<<"A", "A">>)
    /\ address_lookup_tables = Some(<<Table("A", 1), Table("A", 1)>>)

(* ------------------- LookupTableCacheProvider: management ------------- *)
(* C31: every sync() leaves len() equal to the number of keys whose        *)
(* positive-cache entry was inserted, not cleared and not expired,         *)
(* len_negative() equal to the same number for the negative cache,         *)
(* is_empty() / is_empty_negative() true exactly when that number is 0,    *)
(* and total() equal to len() + len_negative().                            *)
C31_CountsAfterSync ==
    [][sync =>
         /\ len' = Cardinality({k \in Keys : PosFresh(k)})
         /\ len_negative' = Cardinality({k \in Keys : NegFresh(k)})
         /\ is_empty' <=> ({k \in Keys : PosFresh(k)} = {})
         /\ is_empty_negative' <=> ({k \in Keys : NegFresh(k)} = {})
         /\ total' = Cardinality({k \in Keys : PosFresh(k)})
                     + Cardinality({k \in Keys : NegFresh(k)})]_vars

(* C31 witness: [A, B, C] was answered at time 0 with B not found; B's     *)
(* negative entry has expired since, and the counts read after sync() are  *)
(* 2 and 0.                                                                *)
C31_Witness ==
    /\ pc["c1"] = "done" /\ pubkeys["c1"] = <<"A", "B", "C">>
    /\ h_missed["c1"] = <<<<"B", 0, 2>>>>
    /\ now = NegTTL
    /\ h_synced
    /\ len = 2 /\ len_negative = 0 /\ total = 2
    /\ ~is_empty /\ is_empty_negative
    /\ ~negative_cache["B"].present

(* The key a caller begins to resolve in this step.                        *)
BeginsKey(c, k) ==
    /\ pc[c] \in {"idle", "lk_loop"}
    /\ pc'[c] # pc[c] \/ idx'[c] # idx[c]
    /\ pubkeys'[c] # <<>>
    /\ k = pubkeys'[c][IF pc[c] = "idle" THEN 1 ELSE idx[c]]
PosElapsed(k) == lookup_cache[k].present /\ now >= lookup_cache[k].at + PosTTL
NegElapsed(k) == negative_cache[k].present /\ now >= negative_cache[k].at + NegTTL

(* C32: a resolution of key K begun once K's positive TTL has elapsed is   *)
(* not served from the cache but makes a new underlying call; a successful *)
(* fetch replaces K's whole entry by the table just fetched, stamped with  *)
(* the current time; and a sync() that runs when every entry's TTL has     *)
(* elapsed leaves both counts at zero.                                     *)
C32_Step ==
    /\ \A c \in Callers, k \in Keys :
          /\ (BeginsKey(c, k) /\ PosElapsed(k) /\ lk_waiter[k] = NoCaller)
             => /\ pc'[c] = "lk_fetch"
                /\ counters'["Lookup"] = counters["Lookup"] + 1
                /\ Len(resolved'[c]) = IF pc[c] = "idle" THEN 0 ELSE Len(resolved[c])
          /\ (pc[c] = "lk_fetch" /\ pc'[c] \in {"lk_loop", "done"} /\ CurKey(c) = k)
             => /\ lookup_cache'[k] = [present |-> TRUE, value |-> Table(k, lookups[k]),
                                       at |-> now]
                /\ resolved'[c][Len(resolved'[c])] = Table(k, lookups[k])
    /\ (sync /\ \A k \in Keys : /\ lookup_cache[k].present => PosElapsed(k)
                                /\ negative_cache[k].present => NegElapsed(k))
       => len' = 0 /\ len_negative' = 0 /\ total' = 0
C32_ExpiryByTTL == [][C32_Step]_vars

(* C32 witness: B's entry holds the table fetched first and its TTL has    *)
(* elapsed; the chain holds another table by now and the caller's new      *)
(* resolution of B is fetching it.                                         *)
C32_Witness ==
    /\ pc["c1"] = "lk_fetch" /\ CurKey("c1") = "B"
    /\ PosElapsed("B")
    /\ lookup_cache["B"].value = Table("B", 1)
    /\ lookups["B"] = 2
    /\ counters["Lookup"] = 2

PosEmpty == \A k \in Keys : ~lookup_cache[k].present
NegEmpty == \A k \in Keys : ~negative_cache[k].present

(* C33: clear_lookups leaves the positive cache empty and every negative   *)
(* entry as it was; clear_negative leaves the negative cache empty and     *)
(* every positive entry as it was; clear_all leaves both empty; and a      *)
(* resolution of a key that has no positive entry, with no fetch of it in  *)
(* flight, makes an underlying call.                                       *)
C33_Step ==
    /\ clear_lookups => /\ PosEmpty' /\ is_empty'
                        /\ negative_cache' = negative_cache
                        /\ negative_count' = negative_count
    /\ clear_negative => /\ NegEmpty' /\ is_empty_negative'
                         /\ lookup_cache' = lookup_cache
                         /\ lookup_count' = lookup_count
    /\ clear_all => PosEmpty' /\ NegEmpty' /\ total' = 0
    /\ \A c \in Callers, k \in Keys :
          (BeginsKey(c, k) /\ ~lookup_cache[k].present /\ lk_waiter[k] = NoCaller)
          => /\ pc'[c] = "lk_fetch"
             /\ counters'["Lookup"] = counters["Lookup"] + 1
C33_ClearFrames == [][C33_Step]_vars

(* C33 witness: [A, B, C] returned the tables of A and C, which were       *)
(* cached; before any time passed the positive cache was cleared, and B's  *)
(* negative entry is still in place.                                       *)
C33_Witness ==
    /\ pc["c1"] = "done" /\ pubkeys["c1"] = <<"A", "B", "C">>
    /\ ret["c1"].ok /\ KeysOf(ret["c1"].val) = <<"A", "C">>
    /\ now = 0
    /\ PosEmpty /\ is_empty
    /\ NegFresh("B")

(* ----------------------- clones of the providers ---------------------- *)
(* Every caller of SpecSimple works through its own clone of the           *)
(* composite, whose inner is its own clone of the counter provider.        *)
C34_Step ==
    \A c \in Callers :
        /\ (SimpleBegins(c) /\ h_op'[c] = "Blockhash" /\ BhFresh)
           => /\ pc'[c] = "done"
              /\ ret'[c] = Ok(blockhash.value)
              /\ counters' = counters
        /\ \A k \in Keys :
              (BeginsKey(c, k) /\ PosFresh(k))
              => /\ counters' = counters
                 /\ Len(resolved'[c]) >= 1
                 /\ resolved'[c][Len(resolved'[c])] = lookup_cache[k].value
        /\ (pc[c] = "idle" /\ pc'[c] = "ctr_inner")
           => \A m \in RpcMethod :
                 m = ctr_call'[c] => get_counter(m)' = get_counter(m) + 1

(* C34: a blockhash or a table cached by a call through any clone is       *)
(* served to a call through any clone without an underlying call; and the  *)
(* counter of an operation read through any clone counts the calls made    *)
(* through all clones, those still in flight included.                     *)
C34_ClonesShare ==
    /\ [](\A m \in {"Fees", "Simulate", "Send"} :
             /\ get_counter(m) = h_direct[m]
             /\ get_counter(m) >= Cardinality({c \in Callers : ctr_call[c] = m}))
    /\ [][C34_Step]_vars

(* C34 witness: the first clone fetched the blockhash on its own and the   *)
(* second was served the same value with no second underlying call, while  *)
(* the fees counter shows an earlier call.                                 *)
C34_Witness ==
    /\ pc["c1"] = "done" /\ h_op["c1"] = "Blockhash" /\ h_alone["c1"] /\ ret["c1"].ok
    /\ pc["c2"] = "done" /\ h_op["c2"] = "Blockhash" /\ ~h_alone["c2"]
    /\ ret["c2"] = ret["c1"]
    /\ get_counter("Blockhash") = 1
    /\ get_counter("Fees") = 1

(* ----------------------- operations passed through -------------------- *)
Decorators == {"BlockHashCacheProvider", "LookupTableCacheProvider"}
CacheState == <<blockhash, bh_waiter, lookup_cache, negative_cache, lk_waiter,
                lookup_count, negative_count>>

(* C35: every call of an operation a cache decorator does not cache hands  *)
(* exactly one call of that operation to the inner provider (its counter   *)
(* grows by 1, no other counter moves), the decorator call returns what    *)
(* inner answered, Ok or Err, and neither step changes either cache; so    *)
(* the inner provider has seen as many calls of fees, simulate and send as *)
(* the decorators were called with.                                        *)
C35_Step ==
    \A c \in Callers :
        /\ (pc[c] = "idle" /\ pc'[c] # "idle" /\ h_op'[c] \in Decorators)
           => /\ pc'[c] = "ctr_inner"
              /\ \A m \in RpcMethod :
                    IF m = ctr_call'[c]
                    THEN /\ counters'[m] = counters[m] + 1
                         /\ h_op'[c] = "BlockHashCacheProvider" => m \in BhForwarded
                         /\ h_op'[c] = "LookupTableCacheProvider" => m \in LkForwarded
                    ELSE counters'[m] = counters[m]
              /\ UNCHANGED CacheState
        /\ (pc[c] = "ctr_inner" /\ pc'[c] = "done")
           => /\ ret'[c] \in InnerAnswers
              /\ counters' = counters
              /\ UNCHANGED CacheState
C35_PassThrough ==
    /\ [](\A m \in {"Fees", "Simulate", "Send"} : get_counter(m) = h_direct[m])
    /\ [][C35_Step]_vars

(* C35 witness: with a blockhash cached, a lookup passed through the       *)
(* blockhash decorator returned inner's error and a blockhash call passed  *)
(* through the lookup decorator is waiting for inner; each was counted     *)
(* once, the blockhash call next to the fetch that filled the cache.       *)
C35_Witness ==
    /\ blockhash.present /\ PosEmpty
    /\ h_op["c1"] = "BlockHashCacheProvider" /\ pc["c1"] = "done"
    /\ ret["c1"] = Err(TransportErr)
    /\ h_op["c2"] = "LookupTableCacheProvider" /\ pc["c2"] = "ctr_inner"
    /\ ctr_call["c2"] = "Blockhash"
    /\ get_counter("Lookup") = 1 /\ get_counter("Blockhash") = 2

(* ----------------------- fetch_lookup_tables -------------------------- *)
(* The account of key k is an initialized lookup table with an address.    *)
Usable(rpc, k) ==
    /\ rpc.accounts[k].some
    /\ rpc.accounts[k].val.type = "LookupTable"
    /\ rpc.accounts[k].val.addresses # <<>>
Unparsable(rpc, k) == rpc.accounts[k].some /\ rpc.accounts[k].val.type = "Invalid"
Decoded(texts) == [j \in 1..Len(texts) |-> texts[j][2]]
ExpectedTables(keys, rpc) ==
    LET usable == SelectSeq(keys, LAMBDA k : Usable(rpc, k))
    IN [j \in 1..Len(usable) |->
           Table(usable[j], Decoded(rpc.accounts[usable[j]].val.addresses))]

(* C36: fetch_lookup_tables of an empty key list returns an empty result   *)
(* and makes no transport call; of any other list it makes exactly one     *)
(* transport call, for the whole list, and, when the call succeeds and     *)
(* every account found parses, returns Ok with one table per requested     *)
(* key whose account is an initialized lookup table with an address, under *)
(* that key, in request order; missing accounts, uninitialized tables and  *)
(* tables without addresses are left out and raise no error.               *)
C36_FetchLookupTables ==
    OpIs("fetch_lookup_tables") =>
        LET keys == tx_ret.args[1]
            rpc == tx_ret.args[2]
        IN /\ keys = <<>> => tx_ret.res.ok /\ tx_ret.res.val = <<>> /\ rpc_log = <<>>
           /\ keys # <<>> =>
                 /\ Len(rpc_log) = 1
                 /\ rpc_log[1] = AccountsCall(keys)
                 /\ (rpc.ok /\ \A j \in 1..Len(keys) : ~Unparsable(rpc, keys[j]))
                    => /\ tx_ret.res.ok
                       /\ tx_ret.res.val = ExpectedTables(keys, rpc)
                       /\ Len(tx_ret.res.val) <= Len(keys)

(* C36 witness: of two keys, the first an initialized table and the second *)
(* an uninitialized one, only the first comes back, under its key and with *)
(* its addresses.                                                          *)
C36_Witness ==
    /\ OpIs("fetch_lookup_tables")
    /\ tx_ret.args[1] = <<"A", "B">>
    /\ tx_ret.args[2].ok
    /\ tx_ret.args[2].accounts["B"] = Some(UninitializedData)
    /\ tx_ret.res.ok
    /\ tx_ret.res.val = <<Table("A", <<"x", "y">>)>>
    /\ Len(rpc_log) = 1

(* ----------------------- the two lookup caches ------------------------ *)
(* C37: no key has an unexpired entry in the positive cache and an         *)
(* unexpired entry in the negative cache at the same time.                 *)
C37_CachesDisjoint == \A k \in Keys : ~(PosFresh(k) /\ NegFresh(k))

(* ----------------------- order of the resolved tables ----------------- *)
(* The positions of the request that were answered not-found, and the keys *)
(* at the other positions, in request order.                               *)
MissedAt(c) == {h_missed[c][j][3] : j \in 1..Len(h_missed[c])}
KeysNotMissed(c) ==
    LET at == SelectSeq([i \in 1..Len(pubkeys[c]) |-> i], LAMBDA i : i \notin MissedAt(c))
    IN [j \in 1..Len(at) |-> pubkeys[c][at[j]]]

(* C38: a lookup call that returns Ok returns one table per position of    *)
(* the request that was not answered not-found, under the key at that      *)
(* position and in the order of the request, a key asked for twice twice,  *)
(* whether a table came from the cache or from a fetch; and every          *)
(* underlying lookup call is made by one caller for the one key it is at.  *)
C38_Step ==
    counters'["Lookup"] # counters["Lookup"] =>
        /\ counters'["Lookup"] = counters["Lookup"] + 1
        /\ \E c \in Callers :
              /\ pc[c] # "lk_fetch" /\ pc'[c] = "lk_fetch"
              /\ \A k \in Keys :
                    h_since'[k] = h_since[k] + IF k = pubkeys'[c][idx'[c]] THEN 1 ELSE 0
LookupCaches == <<lookup_cache, negative_cache>>
FetchFailed(c) == pc[c] = "lk_maperr" /\ arc_err[c].kind = "SolanaRpcError"

(* The failure reaches the call, and the call returns: neither step        *)
(* changes a cache, the loop stops at the key that failed and no further   *)
(* underlying call is made.                                                *)
C39_Effects ==
    \A c \in Callers :
        /\ (pc[c] \in {"lk_fetch", "lk_wait"} /\ FetchFailed(c)')
           => UNCHANGED LookupCaches /\ idx'[c] = idx[c]
        /\ (FetchFailed(c) /\ pc'[c] # pc[c])
           => /\ pc'[c] = "done" /\ ~ret'[c].ok
              /\ UNCHANGED LookupCaches
              /\ idx'[c] = idx[c] /\ counters' = counters
        /\ (pc[c] = "done" /\ pc'[c] # pc[c]) => pc'[c] = "idle" /\ counters' = counters
(* The call returns the transport error that the fetch failed with: the    *)
(* error itself when the fetch was this call's alone, and otherwise the    *)
(* error or its wrapping by handle_cache_error.                            *)
C39_ReturnsThatError ==
    \A c \in Callers :
        (FetchFailed(c) /\ pc'[c] # pc[c]) =>
            /\ ret'[c].err \in {TransportErr, MokaCacheError(to_string(TransportErr))}
            /\ h_alone[c] => ret'[c].err = TransportErr
(* The entries of the keys before the one that failed are in the caches    *)
(* for as long as their time-to-live.                                      *)
C39_EarlierEntriesKept ==
    \A c \in Callers :
        (pc[c] = "done" /\ IsLookupCall(c) /\ h_failed[c]) =>
            /\ idx[c] \in 1..Len(pubkeys[c])
            /\ \A j \in 1..(idx[c] - 1) :
                  IF j \in MissedAt(c)
                  THEN negative_cache[pubkeys[c][j]].present \/ now >= NegTTL
                  ELSE lookup_cache[pubkeys[c][j]].present \/ now >= PosTTL

C40_NoCallerWaitsForever ==
    \A c \in LiveCallers : (pc[c] \notin {"idle", "done"}) ~> (pc[c] = "done")

(* C40 witness: two callers shared one underlying fetch that failed, and   *)
(* both calls have returned its error.                                     *)
C40_Witness ==
    /\ pc["c1"] = "done" /\ pc["c2"] = "done"
    /\ h_failed["c1"] /\ h_failed["c2"]
    /\ ~h_alone["c1"] /\ ~h_alone["c2"]
    /\ ~ret["c1"].ok /\ ~ret["c2"].ok
    /\ get_counter("Blockhash") + get_counter("Lookup") = 1

====
